---- MODULE Spec2Model ----
(***************************************************************************)
(* State-machine model of the blog API (aalug/blog_drf): the vote ledger   *)
(* with its toggle protocol (posts/serializers.py, posts/views.py), the    *)
(* points aggregator and the tag garbage collector (posts/signals.py).     *)
(*                                                                         *)
(* Every request handler is one action.  A handler that performs several   *)
(* row operations records them, in order, in the `trace` field of the      *)
(* request log (`last`), so that the order of the sub-steps of a request   *)
(* and the database contents between them can be stated.                   *)
(*                                                                         *)
(* The signal handlers compute on Python integers and save the result; the *)
(* model does the same, so points may go below 0, as the tests expect      *)
(* (posts/tests/test_signals.py:71-82 take a fresh profile from 0 to -1).  *)
(* core/models.py:65 declares the column a PositiveIntegerField, whose     *)
(* check refuses a negative value; `points_check` says whether the store   *)
(* carries that check.  It is off where the arithmetic of the handlers is  *)
(* examined (VoteSpec) and free in FaultSpec, where the failures of an     *)
(* adjustment are examined together with the profiles that may be missing  *)
(* and the transaction that may or may not surround a request.             *)
(*                                                                         *)
(* The comments that are voted on exist from the start and go only with    *)
(* DELETE /comments/{id}; they belong to posts other than the ones the     *)
(* post actions create and delete.                                         *)
(***************************************************************************)
EXTENDS Integers, Sequences, FiniteSets, TLC

\* ---------------------------------------------------------------- bounds
MaxVoteId == 2
MaxPostId == 2
MaxInitPoints == 1
MaxCommentId == 3
MaxImageId == 1
\* the longest password a request carries
MaxPasswordLength == 7

\* ------------------------------------------------------------- constants
UPVOTE == "upvote"
DOWNVOTE == "downvote"
VOTE_CHOICES == {UPVOTE, DOWNVOTE}

HTTP_200_OK == 200
HTTP_201_CREATED == 201
HTTP_204_NO_CONTENT == 204
HTTP_400_BAD_REQUEST == 400
HTTP_401_UNAUTHORIZED == 401
HTTP_403_FORBIDDEN == 403
HTTP_404_NOT_FOUND == 404
HTTP_405_METHOD_NOT_ALLOWED == 405
\* the answer to a request whose handler raised an exception nobody caught
HTTP_500_INTERNAL_SERVER_ERROR == 500
SAFE_METHODS == {"GET", "HEAD", "OPTIONS"}

\* ---------------------------------------------------------------- inputs
Users == {"alice", "bob"}
AnonymousUser == "anonymous"
Callers == Users \cup {AnonymousUser}
CommentIds == {1, 2}
\* Who wrote which comment.  The two users are interchangeable, so comment 1
\* is alice's; comment 2 is hers too, or bob's.
CommentAuthorings == {f \in [CommentIds -> Users] : f[1] = "alice"}
\* is_staff of the users
StaffUsers == {"alice"}
\* the user whose requests fill the tables
Creator == "alice"
TagNames == {"python", "django"}
\* the `tags` lists a post request may carry: none, one name, two names, and
\* one name twice
TagLists == {<<>>, <<"python">>, <<"django">>, <<"python", "django">>,
             <<"python", "python">>}
\* vote_type values a request body may carry; "sideways" is not a choice
VoteTypeInputs == VOTE_CHOICES \cup {"sideways"}
\* the name a tag is renamed to
NewTagName == "django"
\* the title of a post image, and the one it is changed to
Title == "title"
NewTitle == "new image title"
\* the text of a comment
Texts == {"first", "edited"}
\* what a request to /user may set: the password (in the nested `user`) and
\* the fields of the profile
ProfileFields ==
    {"password", "first_name", "last_name", "date_of_birth", "profile_image"}
\* what identifies a user and no request to /user/profile may set
IdentityFields == {"email", "username"}
AccountFields == IdentityFields \cup ProfileFields
\* 'password': {'min_length': 6}
min_length == 6
\* Comment.post of a comment that belongs to a post outside the `posts`
\* table of the model
OtherPost == 0

VARIABLES
    votes,           \* the Vote table: set of rows [id, user, comment, vote_type]
    points,          \* UserProfile.points of every user
    next_vote_id,    \* the Vote table's auto-increment primary key
    comment_author,  \* Comment.author of every comment
    init_points,     \* the points table at the start (never written)
    last,            \* log of the latest request to /votes
    run,             \* the current run of requests of one user on one comment
    posts,           \* the Post table: set of ids
    post_fields,     \* title and slug of every post
    updated,         \* the posts in the order of their updated_at, oldest first
    tags,            \* the Tag table: set of rows [id, name]
    post_tags,       \* Post.tags, the many-to-many table: set of <<post, tag id>>
    next_post_id,    \* the Post table's auto-increment primary key
    next_tag_id,     \* the Tag table's auto-increment primary key
    last_post,       \* log of the latest request to /posts, /tags, /postimages
    images,          \* the PostImage table: set of rows [id, post, title]
    next_image_id,   \* the PostImage table's auto-increment primary key
    comments,        \* the Comment table: set of rows [id, author, text, post]
    next_comment_id, \* the Comment table's auto-increment primary key
    last_comment,    \* log of the latest request to /comments
    profiles,        \* the users that have a UserProfile row
    points_check,    \* does the store refuse a negative `points` value?
    atomic_requests, \* does the framework wrap each request in a transaction?
    proc,            \* the POST /votes request each server worker is handling
    serialized,      \* does a request run alone, from its start to its end?
    accounts,        \* the User table: the registered users
    user_fields,     \* password and profile fields of every user
    last_user        \* log of the latest request to /user

vote_vars == <<votes, points, next_vote_id, comment_author, init_points, last, run>>
post_vars == <<posts, post_fields, updated, tags, post_tags, next_post_id, next_tag_id, last_post,
               images, next_image_id>>
comment_vars == <<comments, next_comment_id, last_comment>>
\* what the requests to /votes and /posts leave alone
\* the rows and settings that no request of the model writes
store_vars == <<profiles, points_check, atomic_requests>>
\* the requests in progress, statement by statement
race_vars == <<proc, serialized>>
user_vars == <<accounts, user_fields, last_user>>
rest_vars == <<comment_vars, store_vars, race_vars, user_vars>>
vars == <<vote_vars, post_vars, rest_vars>>

\* the tables of each API, without the logs
vote_tables == <<votes, points, next_vote_id, comment_author, init_points>>
post_tables == <<posts, post_fields, updated, tags, post_tags, next_post_id, next_tag_id, images,
                 next_image_id>>
comment_tables == <<comments, next_comment_id>>
user_tables == <<accounts, user_fields>>

\* ------------------------------------------------------------ request log
NoVote == [id |-> 0, user |-> "none", comment |-> 0, vote_type |-> "none"]

NoRequest ==
    [op |-> "none", caller |-> "none", comment |-> 0, vote_type |-> "none",
     vote_id |-> 0, status |-> 0, returned |-> NoVote,
     before |-> [votes |-> {}, points |-> [u \in Users |-> 0]],
     trace |-> <<>>]

\* A run: the successful requests that `user` made on `comment` since a state
\* in which the user had no vote on it, with no other request in between.
\* steps lists them: req is the submitted vote_type, or "delete" for
\* DELETE /votes/{id}; voted is the type of the user's vote on the comment
\* before the request ("none" without one); points is the table before it.
NoRun == [user |-> "none", comment |-> 0, steps |-> <<>>]

Step(req, voted, ps) == [req |-> req, voted |-> voted, points |-> ps]

\* GET /posts without query parameters
NoQuery == [tags |-> <<>>, sort |-> ""]

NoPostRequest ==
    [op |-> "none", caller |-> "none", post |-> 0, has_tags |-> FALSE,
     tag_names |-> <<>>, status |-> 0,
     before |-> [posts |-> {}, post_fields |-> <<>>, tags |-> {},
                 post_tags |-> {}],
     trace |-> <<>>, query |-> NoQuery, results |-> <<>>]

NoCommentRequest ==
    [op |-> "none", caller |-> "none", comment |-> 0, has_text |-> FALSE,
     text |-> "none", status |-> 0,
     before |-> [comments |-> {}, votes |-> {}, points |-> [u \in Users |-> 0]]]

NoUserRequest ==
    [op |-> "none", caller |-> "none", email |-> "", password |-> 0,
     body |-> {}, status |-> 0,
     before |-> [accounts |-> {}, profiles |-> {}, user_fields |-> <<>>]]

\* The logs hold the latest request and nothing older: a request to one API
\* clears the logs of the other ones.
VoteRequest ==
    /\ last_post' = NoPostRequest
    /\ last_comment' = NoCommentRequest
    /\ last_user' = NoUserRequest

PostRequest ==
    /\ last' = NoRequest
    /\ run' = NoRun
    /\ last_comment' = NoCommentRequest
    /\ last_user' = NoUserRequest

CommentRequest ==
    /\ last' = NoRequest
    /\ run' = NoRun
    /\ last_post' = NoPostRequest
    /\ last_user' = NoUserRequest

UserRequest ==
    /\ last' = NoRequest
    /\ run' = NoRun
    /\ last_post' = NoPostRequest
    /\ last_comment' = NoCommentRequest

\* --------------------------------------------------------------------- text
\* A string is the sequence of its characters.  The characters of the model:
\* letters of both cases, a letter outside ASCII that has no decomposition
\* (U+0142, written "l_stroke"), the space, the hyphen, the underscore and a
\* punctuation mark.
UpperCase == {"A", "B"}
LowerCase == {"a", "b"}
NonAscii == {"l_stroke"}
WordCharacters == UpperCase \cup LowerCase \cup {"_"}
Separators == {" ", "-"}
Characters == WordCharacters \cup Separators \cup NonAscii \cup {"?"}

\* ord(c)
Ord ==
    (" " :> 32) @@ ("-" :> 45) @@ ("?" :> 63) @@ ("A" :> 65) @@ ("B" :> 66)
    @@ ("_" :> 95) @@ ("a" :> 97) @@ ("b" :> 98) @@ ("l_stroke" :> 322)

\* str.lower()
CharLower(c) ==
    IF c = "A" THEN "a" ELSE IF c = "B" THEN "b" ELSE c

Lower(str) == [i \in DOMAIN str |-> CharLower(str[i])]

\* a < b for two strings: Python compares them character by character
RECURSIVE StrLess(_, _)
StrLess(a, b) ==
    IF b = <<>> THEN FALSE
    ELSE IF a = <<>> THEN TRUE
    ELSE IF Head(a) # Head(b) THEN Ord[Head(a)] < Ord[Head(b)]
    ELSE StrLess(Tail(a), Tail(b))

\* re.sub(r'[-\s]+', '-', value)
RECURSIVE CollapseSeparators(_)
CollapseSeparators(str) ==
    IF str = <<>> THEN <<>>
    ELSE IF Head(str) \in Separators
    THEN IF Len(str) > 1 /\ str[2] \in Separators
         THEN CollapseSeparators(Tail(str))
         ELSE <<"-">> \o CollapseSeparators(Tail(str))
    ELSE <<Head(str)>> \o CollapseSeparators(Tail(str))

\* str.strip('-_')
RECURSIVE Strip(_)
Strip(str) ==
    IF str = <<>> THEN <<>>
    ELSE IF Head(str) \in {"-", "_"} THEN Strip(Tail(str))
    ELSE IF str[Len(str)] \in {"-", "_"} THEN Strip(SubSeq(str, 1, Len(str) - 1))
    ELSE str

IsAscii(c) == c \notin NonAscii
IsSlugCharacter(c) == c \in WordCharacters \cup Separators

\* django.utils.text.slugify(value): the characters outside ASCII are
\* dropped (NFKD, then encode('ascii', 'ignore')), the value is lowered,
\* what is not a word character, a space or a hyphen is removed, the runs
\* of spaces and hyphens become one hyphen, and the hyphens and underscores
\* at both ends are stripped.
slugify(value) ==
    Strip(CollapseSeparators(
        SelectSeq(Lower(SelectSeq(value, IsAscii)), IsSlugCharacter)))

\* ------------------------------------------------------------ the database
\* A database value threaded through the row operations of one request;
\* trace lists the row operations done so far with the tables after each.
Db(vs, ps, nid, tr) == [votes |-> vs, points |-> ps, next_id |-> nid, trace |-> tr]

Event(ev, vs, ps) == [ev |-> ev, votes |-> vs, points |-> ps]

\* An exception leaves the row operation it was raised in: the tables stay
\* as they were at that point, and the trace ends with the event.
Raise(db) ==
    Db(db.votes, db.points, db.next_id,
       Append(db.trace, Event("raised", db.votes, db.points)))

\* Has an exception been raised that nothing caught?
Raised(db) == db.trace # <<>> /\ db.trace[Len(db.trace)].ev = "raised"

\* instance.comment.author.user_profile raises RelatedObjectDoesNotExist for
\* an author without a profile row; comment_author_profile.save() raises
\* IntegrityError where the column carries the check of a
\* PositiveIntegerField and the value is negative.
AdjustmentFails(author, new_points) ==
    \/ author \notin profiles
    \/ points_check /\ new_points < 0

\* Vote.objects.filter(user=user, comment__id=comment_id)
VotesOf(vs, user, comment) == {v \in vs : v.user = user /\ v.comment = comment}

\* QuerySet.first(): the row with the smallest primary key, or None
First(rows) ==
    IF rows = {} THEN NoVote
    ELSE CHOOSE v \in rows : \A w \in rows : v.id <= w.id

\* ------------------------------------------------- posts/signals.py (votes)
\* Variant: the points go to the profile of the voter.
calculate_user_points_add_vote_to_voter(db, instance) ==
    LET new_points == IF instance.vote_type = UPVOTE
                      THEN db.points[instance.user] + 1
                      ELSE db.points[instance.user] - 1
        ps == [db.points EXCEPT ![instance.user] = new_points]
    IN Db(db.votes, ps, db.next_id,
          Append(db.trace, Event("points_save", db.votes, ps)))

\* Variant: the adjustment of a flip is counted from the upvoted side only.
calculate_user_points_add_vote_double_down(db, instance) ==
    LET author == comment_author[instance.comment]
        new_points == IF instance.vote_type = UPVOTE
                      THEN db.points[author] + 1
                      ELSE db.points[author] - 2
        ps == [db.points EXCEPT ![author] = new_points]
    IN Db(db.votes, ps, db.next_id,
          Append(db.trace, Event("points_save", db.votes, ps)))

\* post_save receiver of Vote: read the author's profile, adjust, save.
calculate_user_points_add_vote(db, instance) ==
    LET author == comment_author[instance.comment]
        new_points == IF instance.vote_type = UPVOTE
                      THEN db.points[author] + 1
                      ELSE db.points[author] - 1
        ps == [db.points EXCEPT ![author] = new_points]
    IN IF AdjustmentFails(author, new_points) THEN Raise(db)
       ELSE Db(db.votes, ps, db.next_id,
               Append(db.trace, Event("points_save", db.votes, ps)))

\* Variant: the deletion of a downvote subtracts, as that of an upvote does.
calculate_user_points_delete_vote_always_subtracting(db, instance) ==
    LET author == comment_author[instance.comment]
        ps == [db.points EXCEPT ![author] = @ - 1]
    IN Db(db.votes, ps, db.next_id,
          Append(db.trace, Event("points_save", db.votes, ps)))

\* Variant: the deletion adjusts in the direction of the creation.
calculate_user_points_delete_vote_same_direction(db, instance) ==
    LET author == comment_author[instance.comment]
        new_points == IF instance.vote_type = UPVOTE
                      THEN db.points[author] + 1
                      ELSE db.points[author] - 1
        ps == [db.points EXCEPT ![author] = new_points]
    IN Db(db.votes, ps, db.next_id,
          Append(db.trace, Event("points_save", db.votes, ps)))

\* pre_delete receiver of Vote: read the author's profile, adjust, save.
calculate_user_points_delete_vote(db, instance) ==
    LET author == comment_author[instance.comment]
        new_points == IF instance.vote_type = UPVOTE
                      THEN db.points[author] - 1
                      ELSE db.points[author] + 1
        ps == [db.points EXCEPT ![author] = new_points]
    IN IF AdjustmentFails(author, new_points) THEN Raise(db)
       ELSE Db(db.votes, ps, db.next_id,
               Append(db.trace, Event("points_save", db.votes, ps)))

\* ------------------------------------------------------- Vote row operations
\* Variant: the row is stored with the default vote_type, whatever was sent.
Vote_objects_create_ignoring_type(db, user, comment, vote_type) ==
    LET row == [id |-> db.next_id, user |-> user, comment |-> comment,
                vote_type |-> UPVOTE]
        vs == db.votes \cup {row}
        inserted == Db(vs, db.points, db.next_id + 1,
                       Append(db.trace, Event("row_insert", vs, db.points)))
    IN calculate_user_points_add_vote(inserted, row)

\* Vote.objects.create(**validated_data): INSERT, then the post_save signal.
\* The row is in the table when the receiver runs; an exception of the
\* receiver leaves create() with the row inserted.
Vote_objects_create(db, user, comment, vote_type) ==
    LET row == [id |-> db.next_id, user |-> user, comment |-> comment,
                vote_type |-> vote_type]
        vs == db.votes \cup {row}
        inserted == Db(vs, db.points, db.next_id + 1,
                       Append(db.trace, Event("row_insert", vs, db.points)))
    IN calculate_user_points_add_vote(inserted, row)

\* Variant: the signal is sent and the row stays.
Vote_delete_keeping_row(db, vote) ==
    LET signalled == calculate_user_points_delete_vote(db, vote)
    IN Db(signalled.votes, signalled.points, signalled.next_id,
          Append(signalled.trace,
                 Event("row_delete", signalled.votes, signalled.points)))

\* Variant: the row is deleted without the signal being sent, as a raw
\* DELETE would do it.
Vote_delete_silently(db, vote) ==
    LET vs == db.votes \ {vote}
    IN Db(vs, db.points, db.next_id,
          Append(db.trace, Event("row_delete", vs, db.points)))

\* Variant: the row is deleted first and the receiver runs after it, as a
\* post_delete receiver would.
Vote_delete_signalling_after(db, vote) ==
    LET vs == db.votes \ {vote}
        removed == Db(vs, db.points, db.next_id,
                      Append(db.trace, Event("row_delete", vs, db.points)))
    IN calculate_user_points_delete_vote(removed, vote)

\* vote.delete(): the pre_delete signal, then DELETE of the row.  An
\* exception of the receiver leaves delete() before the DELETE.
Vote_delete(db, vote) ==
    LET signalled == calculate_user_points_delete_vote(db, vote)
        vs == signalled.votes \ {vote}
    IN IF Raised(signalled) THEN signalled
       ELSE Db(vs, signalled.points, signalled.next_id,
               Append(signalled.trace, Event("row_delete", vs, signalled.points)))

\* ------------------------------------ posts/serializers.py VoteSerializer
\* The instance that vote.delete() leaves in the caller's hands: the fields
\* of the row, its primary key set to None (0).
Deleted(vote) == [vote EXCEPT !.id = 0]

\* Variant: a vote of the other type is not deleted before the new one
\* is created.
VoteSerializer_create_keeping_old(db, user, comment, vote_type) ==
    LET vote == First(VotesOf(db.votes, user, comment))
        created == Vote_objects_create(db, user, comment, vote_type)
        made == [id |-> db.next_id, user |-> user, comment |-> comment,
                 vote_type |-> vote_type]
    IN IF vote = NoVote THEN [db |-> created, returned |-> made]
       ELSE IF vote.vote_type = vote_type
       THEN [db |-> Vote_delete(db, vote), returned |-> Deleted(vote)]
       ELSE [db |-> created, returned |-> made]

\* Variant: the new vote is created before the old one is deleted.
VoteSerializer_create_before_delete(db, user, comment, vote_type) ==
    LET vote == First(VotesOf(db.votes, user, comment))
        made == [id |-> db.next_id, user |-> user, comment |-> comment,
                 vote_type |-> vote_type]
    IN IF vote = NoVote
       THEN [db |-> Vote_objects_create(db, user, comment, vote_type),
             returned |-> made]
       ELSE IF vote.vote_type = vote_type
       THEN [db |-> Vote_delete(db, vote), returned |-> Deleted(vote)]
       ELSE [db |-> Vote_delete(Vote_objects_create(db, user, comment, vote_type),
                                vote),
             returned |-> made]

\* Variant: a repeated vote of the same type is left in place.
VoteSerializer_create_without_unvote(db, user, comment, vote_type) ==
    LET vote == First(VotesOf(db.votes, user, comment))
        made == [id |-> db.next_id, user |-> user, comment |-> comment,
                 vote_type |-> vote_type]
    IN IF vote = NoVote
       THEN [db |-> Vote_objects_create(db, user, comment, vote_type),
             returned |-> made]
       ELSE IF vote.vote_type = vote_type
       THEN [db |-> db, returned |-> vote]
       ELSE [db |-> Vote_objects_create(Vote_delete(db, vote), user, comment,
                                        vote_type),
             returned |-> [made EXCEPT !.id = db.next_id]]

\* Variant: `return vote` is reached after a flip too.
VoteSerializer_create_returning_old(db, user, comment, vote_type) ==
    LET vote == First(VotesOf(db.votes, user, comment))
        made == [id |-> db.next_id, user |-> user, comment |-> comment,
                 vote_type |-> vote_type]
    IN IF vote = NoVote
       THEN [db |-> Vote_objects_create(db, user, comment, vote_type),
             returned |-> made]
       ELSE IF vote.vote_type = vote_type
       THEN [db |-> Vote_delete(db, vote), returned |-> Deleted(vote)]
       ELSE [db |-> Vote_objects_create(Vote_delete(db, vote), user, comment,
                                        vote_type),
             returned |-> Deleted(vote)]

\* Variant: the existing vote is looked up by comment alone.
VoteSerializer_create_of_any_user(db, user, comment, vote_type) ==
    LET vote == First({v \in db.votes : v.comment = comment})
        made == [id |-> db.next_id, user |-> user, comment |-> comment,
                 vote_type |-> vote_type]
    IN IF vote = NoVote
       THEN [db |-> Vote_objects_create(db, user, comment, vote_type),
             returned |-> made]
       ELSE IF vote.vote_type = vote_type
       THEN [db |-> Vote_delete(db, vote), returned |-> Deleted(vote)]
       ELSE [db |-> Vote_objects_create(Vote_delete(db, vote), user, comment,
                                        vote_type),
             returned |-> made]

\* VoteSerializer.create: the toggle.  The result is the database after the
\* call together with the vote the method returns.
VoteSerializer_create(db, user, comment, vote_type) ==
    LET vote == First(VotesOf(db.votes, user, comment))
    IN IF vote = NoVote
       THEN LET created == Vote_objects_create(db, user, comment, vote_type)
            IN [db |-> created,
                returned |-> [id |-> db.next_id, user |-> user,
                              comment |-> comment, vote_type |-> vote_type]]
       ELSE IF vote.vote_type = vote_type
       THEN [db |-> Vote_delete(db, vote), returned |-> Deleted(vote)]
       ELSE LET deleted == Vote_delete(db, vote)
                created == Vote_objects_create(deleted, user, comment, vote_type)
            IN [db |-> IF Raised(deleted) THEN deleted ELSE created,
                returned |-> [id |-> deleted.next_id, user |-> user,
                              comment |-> comment, vote_type |-> vote_type]]

\* Does VoteSerializer.create insert a row for this request?
CreatesRow(user, comment, vote_type) ==
    LET vote == First(VotesOf(votes, user, comment))
    IN vote = NoVote \/ vote.vote_type # vote_type

\* ------------------------------------------ core/models.py Comment counts
\* Comment.number_of_upvotes: a count over the Vote table, made when read
number_of_upvotes(comment) ==
    Cardinality({v \in votes : v.comment = comment /\ v.vote_type = UPVOTE})

\* Comment.number_of_downvotes
number_of_downvotes(comment) ==
    Cardinality({v \in votes : v.comment = comment /\ v.vote_type = DOWNVOTE})

\* ------------------------------------------------------------------ logging
Log(op, caller, comment, vote_type, vote_id, status, returned, trace) ==
    [op |-> op, caller |-> caller, comment |-> comment, vote_type |-> vote_type,
     vote_id |-> vote_id, status |-> status, returned |-> returned,
     before |-> [votes |-> votes, points |-> points], trace |-> trace]

\* The run after a successful request `req` of `user` on `comment`.
RunAfter(user, comment, req) ==
    LET voted == First(VotesOf(votes, user, comment)).vote_type
        step == Step(req, voted, points)
    IN IF run.user = user /\ run.comment = comment
       THEN [run EXCEPT !.steps = Append(@, step)]
       ELSE IF voted = "none"
       THEN [user |-> user, comment |-> comment, steps |-> <<step>>]
       ELSE NoRun

\* ------------------------------------------------ posts/views.py VoteViewSet
\* POST /votes {comment, vote_type}
SubmitVote(caller, comment, vote_type) ==
    /\ UNCHANGED <<comment_author, init_points, post_tables, comment_tables,
                   store_vars, race_vars, user_tables>>
    /\ VoteRequest
    /\ IF caller = AnonymousUser
       THEN \* permission_classes = [IsAuthenticated]: refused before the
            \* body is read
            /\ last' = Log("submit_vote", caller, 0, "none", 0,
                           HTTP_401_UNAUTHORIZED, NoVote, <<>>)
            /\ run' = NoRun
            /\ UNCHANGED <<votes, points, next_vote_id>>
       ELSE IF vote_type \notin VOTE_CHOICES
       THEN \* ChoiceField(choices=Vote.VOTE_CHOICES) rejects the body
            /\ last' = Log("submit_vote", caller, comment, vote_type, 0,
                           HTTP_400_BAD_REQUEST, NoVote, <<>>)
            /\ run' = NoRun
            /\ UNCHANGED <<votes, points, next_vote_id>>
       ELSE \* perform_create: serializer.save(user=request.user)
            /\ CreatesRow(caller, comment, vote_type) => next_vote_id <= MaxVoteId
            /\ LET res == VoteSerializer_create(
                              Db(votes, points, next_vote_id, <<>>),
                              caller, comment, vote_type)
               IN IF Raised(res.db)
                  THEN \* the exception leaves the view: what was written
                       \* stays, unless the request is one transaction
                       /\ last' = Log("submit_vote", caller, comment, vote_type,
                                      0, HTTP_500_INTERNAL_SERVER_ERROR, NoVote,
                                      res.db.trace)
                       /\ run' = NoRun
                       /\ IF atomic_requests
                          THEN UNCHANGED <<votes, points, next_vote_id>>
                          ELSE /\ votes' = res.db.votes
                               /\ points' = res.db.points
                               /\ next_vote_id' = res.db.next_id
                  ELSE /\ votes' = res.db.votes
                       /\ points' = res.db.points
                       /\ next_vote_id' = res.db.next_id
                       /\ last' = Log("submit_vote", caller, comment, vote_type,
                                      0, HTTP_201_CREATED, res.returned,
                                      res.db.trace)
                       /\ run' = RunAfter(caller, comment, vote_type)

\* Variant: any authenticated user passes.
IsVoteOwner_anyone(vote, caller) == TRUE

\* VoteViewSet.destroy: vote.user != request.user is refused
IsVoteOwner(vote, caller) == vote.user = caller

\* DELETE /votes/{vote_id}
DeleteVote(caller, vote_id) ==
    LET found == {v \in votes : v.id = vote_id}
        vote == First(found)
    IN
    /\ UNCHANGED <<comment_author, init_points, next_vote_id, post_tables,
                   comment_tables, store_vars, race_vars, user_tables>>
    /\ VoteRequest
    /\ IF caller = AnonymousUser
       THEN \* permission_classes = [IsAuthenticated]
            /\ last' = Log("delete_vote", caller, 0, "none", 0,
                           HTTP_401_UNAUTHORIZED, NoVote, <<>>)
            /\ run' = NoRun
            /\ UNCHANGED <<votes, points>>
       ELSE IF found = {}
       THEN \* get_object() finds no row
            /\ last' = Log("delete_vote", caller, 0, "none", vote_id,
                           HTTP_404_NOT_FOUND, NoVote, <<>>)
            /\ run' = NoRun
            /\ UNCHANGED <<votes, points>>
       ELSE IF ~IsVoteOwner(vote, caller)
       THEN /\ last' = Log("delete_vote", caller, vote.comment, "none", vote_id,
                           HTTP_403_FORBIDDEN, NoVote, <<>>)
            /\ run' = NoRun
            /\ UNCHANGED <<votes, points>>
       ELSE \* super().destroy(): instance.delete()
            /\ LET db == Vote_delete(Db(votes, points, next_vote_id, <<>>), vote)
               IN IF Raised(db)
                  THEN \* nothing was written before the exception
                       /\ last' = Log("delete_vote", caller, vote.comment,
                                      "none", vote_id,
                                      HTTP_500_INTERNAL_SERVER_ERROR, NoVote,
                                      db.trace)
                       /\ run' = NoRun
                       /\ UNCHANGED <<votes, points>>
                  ELSE /\ votes' = db.votes
                       /\ points' = db.points
                       /\ last' = Log("delete_vote", caller, vote.comment,
                                      "none", vote_id, HTTP_204_NO_CONTENT,
                                      NoVote, db.trace)
                       /\ run' = RunAfter(caller, vote.comment, "delete")

\* ------------------------------------------------------ posts and tags
PostLog(op, caller, post, has_tags, tag_names, status, trace) ==
    [op |-> op, caller |-> caller, post |-> post, has_tags |-> has_tags,
     tag_names |-> tag_names, status |-> status,
     before |-> [posts |-> posts, post_fields |-> post_fields, tags |-> tags,
                 post_tags |-> post_tags],
     trace |-> trace, query |-> NoQuery, results |-> <<>>]

\* The post tables threaded through the row operations of one request.
PostDb(ps, ts, pts, ntid, tr) ==
    [posts |-> ps, tags |-> ts, post_tags |-> pts, next_tag_id |-> ntid, trace |-> tr]

PostEvent(ev, pdb) ==
    [ev |-> ev, posts |-> pdb.posts, tags |-> pdb.tags, post_tags |-> pdb.post_tags]

TagIds(ts) == {t.id : t \in ts}

\* instance.tags.all(): the ids of the tags attached to a post
TagsOfPost(pts, post) == {t \in {pt[2] : pt \in pts} : <<post, t>> \in pts}

\* tag.post_set.all(): the posts a tag is attached to
PostSetOfTag(pts, tag) == {p \in {pt[1] : pt \in pts} : <<p, tag>> \in pts}

\* a queryset's rows in primary-key order
RECURSIVE InIdOrder(_)
InIdOrder(ids) ==
    IF ids = {} THEN <<>>
    ELSE LET least == CHOOSE i \in ids : \A j \in ids : i <= j
         IN <<least>> \o InIdOrder(ids \ {least})

\* ----------------------------------------- cascades to the Vote table
\* the pre_delete receivers of the Vote rows collected with a comment
RECURSIVE pre_delete_votes(_, _)
pre_delete_votes(db, ids) ==
    IF ids = <<>> \/ Raised(db) THEN db
    ELSE LET vote == CHOOSE v \in db.votes : v.id = Head(ids)
         IN pre_delete_votes(calculate_user_points_delete_vote(db, vote), Tail(ids))

\* comment.delete(): the Vote rows of the comment go with it; pre_delete is
\* sent for each collected Vote row before any row is removed.  delete()
\* runs in a transaction of its own: an exception of a receiver undoes the
\* adjustments of the receivers before it.
Comment_delete(db, comment) ==
    LET collected == {v \in db.votes : v.comment = comment}
        signalled == pre_delete_votes(db, InIdOrder({v.id : v \in collected}))
        vs == signalled.votes \ collected
    IN IF Raised(signalled) THEN Raise(db)
       ELSE Db(vs, signalled.points, signalled.next_id,
               Append(signalled.trace, Event("row_delete", vs, signalled.points)))

\* The comments of a post go with the post (Comment.post is
\* on_delete=CASCADE), and their Vote rows with them: one comment after the
\* other here, which gives the tables that the collector leaves.
RECURSIVE Comments_delete(_, _)
Comments_delete(db, ids) ==
    IF ids = <<>> \/ Raised(db) THEN db
    ELSE Comments_delete(Comment_delete(db, Head(ids)), Tail(ids))

\* ------------------------------------------------------ tags of a post
\* tag.delete(): the row and its rows of the many-to-many table
Tag_delete(pdb, tag) ==
    LET ts == {t \in pdb.tags : t.id # tag}
        pts == {pt \in pdb.post_tags : pt[2] # tag}
        after == PostDb(pdb.posts, ts, pts, pdb.next_tag_id, pdb.trace)
    IN [after EXCEPT !.trace = Append(@, PostEvent("tag_delete", after))]

\* Variant: the tag is deleted whenever a post uses it.
delete_if_only_post_any_count(pdb, tag) ==
    IF Cardinality(PostSetOfTag(pdb.post_tags, tag)) >= 1
    THEN Tag_delete(pdb, tag)
    ELSE pdb

\* posts/signals.py: the body of the loop of delete_related_tags
delete_if_only_post(pdb, tag) ==
    IF Cardinality(PostSetOfTag(pdb.post_tags, tag)) = 1
    THEN Tag_delete(pdb, tag)
    ELSE pdb

\* the loop over instance.tags.all(), which is read when the loop starts
RECURSIVE delete_related_tags_loop(_, _)
delete_related_tags_loop(pdb, todo) ==
    IF todo = <<>> THEN pdb
    ELSE delete_related_tags_loop(delete_if_only_post(pdb, Head(todo)), Tail(todo))

\* pre_delete receiver of Post
delete_related_tags(pdb, instance) ==
    delete_related_tags_loop(pdb, InIdOrder(TagsOfPost(pdb.post_tags, instance)))

\* post.delete(): the pre_delete signal, then DELETE of the row and of its
\* rows of the many-to-many table.
Post_delete(pdb, post) ==
    LET signalled == delete_related_tags(pdb, post)
        after == PostDb(signalled.posts \ {post}, signalled.tags,
                        {pt \in signalled.post_tags : pt[1] # post},
                        signalled.next_tag_id, signalled.trace)
    IN [after EXCEPT !.trace = Append(@, PostEvent("post_delete", after))]

\* Variant: Tag.objects.create(name=name), whatever rows there are.
GetOrCreateTag_always_creating(pdb, post, name) ==
    LET row == [id |-> pdb.next_tag_id, name |-> name]
    IN PostDb(pdb.posts, pdb.tags \cup {row},
              pdb.post_tags \cup {<<post, row.id>>},
              pdb.next_tag_id + 1, pdb.trace)

\* Tag.objects.get_or_create(name=name), then post.tags.add(tag_obj)
GetOrCreateTag(pdb, post, name) ==
    LET matching == {t \in pdb.tags : t.name = name}
    IN IF matching = {}
       THEN LET row == [id |-> pdb.next_tag_id, name |-> name]
            IN PostDb(pdb.posts, pdb.tags \cup {row},
                      pdb.post_tags \cup {<<post, row.id>>},
                      pdb.next_tag_id + 1, pdb.trace)
       ELSE LET tag_obj == CHOOSE t \in matching : TRUE
            IN PostDb(pdb.posts, pdb.tags, pdb.post_tags \cup {<<post, tag_obj.id>>},
                      pdb.next_tag_id, pdb.trace)

\* PostDetailSerializer._get_or_create_tags
RECURSIVE get_or_create_tags(_, _, _)
get_or_create_tags(pdb, tag_names, post) ==
    IF tag_names = <<>> THEN pdb
    ELSE get_or_create_tags(GetOrCreateTag(pdb, post, Head(tag_names)),
                            Tail(tag_names), post)

\* get_or_create finds at most one row for every name of the request
\* (with two it raises MultipleObjectsReturned; the post requests never
\* produce two rows of one name).
Gettable(tag_names) ==
    \A i \in 1..Len(tag_names) :
        Cardinality({t \in tags : t.name = tag_names[i]}) <= 1

\* PostDetailSerializer.create
PostDetailSerializer_create(pdb, post, tag_names) ==
    LET created == PostDb(pdb.posts \cup {post}, pdb.tags, pdb.post_tags,
                          pdb.next_tag_id, pdb.trace)
    IN get_or_create_tags(created, tag_names, post)

\* Variant: the tags of the request are added to those the post has.
PostDetailSerializer_update_without_clear(pdb, post, has_tags, tag_names) ==
    IF has_tags
    THEN get_or_create_tags(pdb, tag_names, post)
    ELSE pdb

\* PostDetailSerializer.update
PostDetailSerializer_update(pdb, post, has_tags, tag_names) ==
    IF has_tags
    THEN LET cleared == PostDb(pdb.posts, pdb.tags,
                               {pt \in pdb.post_tags : pt[1] # post},
                               pdb.next_tag_id, pdb.trace)
         IN get_or_create_tags(cleared, tag_names, post)
    ELSE pdb

\* Variant: only a user who is not staff is refused.
WriteRefusal_users_only(caller) ==
    IF caller \in Users \ StaffUsers THEN HTTP_403_FORBIDDEN ELSE 0

\* Variant: every authenticated user may write.
WriteRefusal_authenticated(caller) ==
    IF caller = AnonymousUser THEN HTTP_401_UNAUTHORIZED ELSE 0

\* IsAdminUser | ReadOnly on a request that writes
WriteRefusal(caller) ==
    IF caller = AnonymousUser THEN HTTP_401_UNAUTHORIZED
    ELSE IF caller \notin StaffUsers THEN HTTP_403_FORBIDDEN
    ELSE 0

\* A refused caller's request is refused whatever it carries: one body and
\* one id stand for all of them.
BodiesOf(caller, bodies) ==
    IF WriteRefusal(caller) # 0 THEN {<<>>} ELSE bodies

PostIdsOf(caller) ==
    IF WriteRefusal(caller) # 0 THEN {1} ELSE 1..next_post_id

CurrentPostDb == PostDb(posts, tags, post_tags, next_tag_id, <<>>)

\* the title of the post with the id `post` where the requests do not say
\* one: the titles differ, as the column is unique
SampleTitle(post) == [i \in 1..post |-> "a"]

\* A Post as the serializer hands it to save(): the title of the request,
\* no slug.
NewPost(title) == [title |-> title, slug |-> <<>>]

\* Variant: every save derives the slug from the title.
Post_save_always_deriving(row) == [row EXCEPT !.slug = slugify(row.title)]

\* Post.save: `if not self.slug: self.slug = slugify(self.title)`
Post_save(row) ==
    IF row.slug = <<>> THEN [row EXCEPT !.slug = slugify(row.title)] ELSE row

\* UniqueValidator of Post.title; `post` is the instance that is updated
\* (0 for a creation)
TitleTaken(post, title) ==
    \E q \in posts \ {post} : post_fields[q].title = title

\* the unique constraint of Post.slug: IntegrityError for a second row
SlugTaken(post, slug) ==
    \E q \in posts \ {post} : post_fields[q].slug = slug

\* auto_now: the post that is saved has the latest updated_at
Touched(order, post) ==
    Append(SelectSeq(order, LAMBDA q : q # post), post)

\* POST /posts
CreatePost(caller, title, tag_names) ==
    /\ UNCHANGED <<vote_tables, comment_tables, store_vars, race_vars, user_tables>>
    /\ PostRequest
    /\ UNCHANGED <<images, next_image_id>>
    /\ IF WriteRefusal(caller) # 0
       THEN /\ last_post' = PostLog("create_post", caller, 0, FALSE, <<>>,
                                    WriteRefusal(caller), <<>>)
            /\ UNCHANGED <<posts, post_fields, updated, tags, post_tags,
                           next_post_id, next_tag_id>>
       ELSE IF title = <<>> \/ TitleTaken(0, title)
       THEN \* the serializer refuses a blank title and a title in use
            /\ last_post' = PostLog("create_post", caller, 0, TRUE, tag_names,
                                    HTTP_400_BAD_REQUEST, <<>>)
            /\ UNCHANGED <<posts, post_fields, updated, tags, post_tags,
                           next_post_id, next_tag_id>>
       ELSE IF SlugTaken(0, Post_save(NewPost(title)).slug)
       THEN \* Post.objects.create raises IntegrityError: no row, no tags
            /\ last_post' = PostLog("create_post", caller, 0, TRUE, tag_names,
                                    HTTP_500_INTERNAL_SERVER_ERROR, <<>>)
            /\ UNCHANGED <<posts, post_fields, updated, tags, post_tags,
                           next_post_id, next_tag_id>>
       ELSE /\ next_post_id <= MaxPostId
            /\ Gettable(tag_names)
            /\ LET pdb == PostDetailSerializer_create(CurrentPostDb, next_post_id,
                                                     tag_names)
                   row == Post_save(NewPost(title))
               IN /\ posts' = pdb.posts
                  /\ post_fields' = [p \in pdb.posts |->
                                        IF p = next_post_id THEN row
                                        ELSE post_fields[p]]
                  /\ updated' = Append(updated, next_post_id)
                  /\ tags' = pdb.tags
                  /\ post_tags' = pdb.post_tags
                  /\ next_tag_id' = pdb.next_tag_id
                  /\ next_post_id' = next_post_id + 1
                  /\ last_post' = PostLog("create_post", caller, next_post_id, TRUE,
                                          tag_names, HTTP_201_CREATED, pdb.trace)

\* PATCH /posts/{post}
UpdatePost(caller, post, has_title, title, has_tags, tag_names) ==
    /\ UNCHANGED <<vote_tables, comment_tables, store_vars, race_vars, user_tables>>
    /\ PostRequest
    /\ UNCHANGED <<next_post_id, images, next_image_id>>
    /\ IF WriteRefusal(caller) # 0
       THEN /\ last_post' = PostLog("update_post", caller, 0, FALSE, <<>>,
                                    WriteRefusal(caller), <<>>)
            /\ UNCHANGED <<posts, post_fields, updated, tags, post_tags,
                           next_tag_id>>
       ELSE IF post \notin posts
       THEN /\ last_post' = PostLog("update_post", caller, post, FALSE, <<>>,
                                    HTTP_404_NOT_FOUND, <<>>)
            /\ UNCHANGED <<posts, post_fields, updated, tags, post_tags,
                           next_tag_id>>
       ELSE IF has_title /\ (title = <<>> \/ TitleTaken(post, title))
       THEN /\ last_post' = PostLog("update_post", caller, post, has_tags,
                                    tag_names, HTTP_400_BAD_REQUEST, <<>>)
            /\ UNCHANGED <<posts, post_fields, updated, tags, post_tags,
                           next_tag_id>>
       ELSE /\ Gettable(tag_names)
            /\ LET pdb == PostDetailSerializer_update(CurrentPostDb, post,
                                                     has_tags, tag_names)
                   instance == [post_fields[post] EXCEPT
                                   !.title = IF has_title THEN title ELSE @]
                   row == Post_save(instance)
               IN IF SlugTaken(post, row.slug)
                  THEN \* instance.save() raises IntegrityError after the
                       \* tags were replaced: they stay, unless the request
                       \* is one transaction
                       /\ UNCHANGED <<posts, post_fields, updated>>
                       /\ IF atomic_requests
                          THEN UNCHANGED <<tags, post_tags, next_tag_id>>
                          ELSE /\ tags' = pdb.tags
                               /\ post_tags' = pdb.post_tags
                               /\ next_tag_id' = pdb.next_tag_id
                       /\ last_post' = PostLog("update_post", caller, post,
                                               has_tags, tag_names,
                                               HTTP_500_INTERNAL_SERVER_ERROR,
                                               pdb.trace)
                  ELSE /\ posts' = pdb.posts
                       /\ post_fields' = [post_fields EXCEPT ![post] = row]
                       /\ updated' = Touched(updated, post)
                       /\ tags' = pdb.tags
                       /\ post_tags' = pdb.post_tags
                       /\ next_tag_id' = pdb.next_tag_id
                       /\ last_post' = PostLog("update_post", caller, post,
                                               has_tags, tag_names, HTTP_200_OK,
                                               pdb.trace)

\* DELETE /posts/{post}
DeletePost(caller, post) ==
    /\ UNCHANGED <<comment_author, init_points, next_vote_id, next_comment_id,
                   store_vars, race_vars, user_tables>>
    /\ UNCHANGED <<next_post_id, next_tag_id, next_image_id>>
    /\ PostRequest
    /\ IF WriteRefusal(caller) # 0
       THEN /\ last_post' = PostLog("delete_post", caller, 0, FALSE, <<>>,
                                    WriteRefusal(caller), <<>>)
            /\ UNCHANGED <<posts, post_fields, updated, tags, post_tags, images>>
            /\ UNCHANGED <<comments, votes, points>>
       ELSE IF post \notin posts
       THEN /\ last_post' = PostLog("delete_post", caller, post, FALSE, <<>>,
                                    HTTP_404_NOT_FOUND, <<>>)
            /\ UNCHANGED <<posts, post_fields, updated, tags, post_tags, images>>
            /\ UNCHANGED <<comments, votes, points>>
       ELSE LET pdb == Post_delete(CurrentPostDb, post)
                collected == {c \in comments : c.post = post}
                db == Comments_delete(Db(votes, points, next_vote_id, <<>>),
                                      InIdOrder({c.id : c \in collected}))
            IN IF Raised(db)
               THEN \* a receiver raised: delete() undoes what it did
                    /\ last_post' = PostLog("delete_post", caller, post, FALSE,
                                            <<>>, HTTP_500_INTERNAL_SERVER_ERROR,
                                            <<>>)
                    /\ UNCHANGED <<posts, post_fields, updated, tags, post_tags, images>>
                    /\ UNCHANGED <<comments, votes, points>>
               ELSE \* PostImage.post and Comment.post are on_delete=CASCADE
                    /\ images' = {i \in images : i.post # post}
                    /\ comments' = comments \ collected
                    /\ votes' = db.votes
                    /\ points' = db.points
                    /\ posts' = pdb.posts
                    /\ post_fields' = [p \in pdb.posts |-> post_fields[p]]
                    /\ updated' = SelectSeq(updated, LAMBDA q : q # post)
                    /\ tags' = pdb.tags
                    /\ post_tags' = pdb.post_tags
                    /\ last_post' = PostLog("delete_post", caller, post, FALSE,
                                            <<>>, HTTP_204_NO_CONTENT, pdb.trace)

\* ------------------------------------------- posts/views.py permissions
\* ReadOnly.has_permission
ReadOnly(method) == method \in SAFE_METHODS

\* IsAdminUser.has_permission: request.user and request.user.is_staff
IsAdminUser(caller) == caller \in StaffUsers

\* the answer to a request without permission: 401 when it carries no
\* credentials (TokenAuthentication), 403 when it does
PermissionDenied(caller) ==
    IF caller = AnonymousUser THEN HTTP_401_UNAUTHORIZED ELSE HTTP_403_FORBIDDEN

\* permission_classes = [IsAdminUser | ReadOnly]: 0 when permitted
StaffOrReadOnly(caller, method) ==
    IF IsAdminUser(caller) \/ ReadOnly(method) THEN 0 ELSE PermissionDenied(caller)

\* permission_classes = [IsAdminUser]: 0 when permitted
StaffOnly(caller) ==
    IF IsAdminUser(caller) THEN 0 ELSE PermissionDenied(caller)

\* ids and names a request to /tags or /postimages may carry; one of each
\* stands for all of them when the caller is refused anyway
TagIdsOf(caller) ==
    IF StaffOnly(caller) # 0 THEN {1} ELSE 1..next_tag_id

NamesOf(caller) ==
    IF StaffOnly(caller) # 0 THEN {<<>>} ELSE {<<>>, <<NewTagName>>}

ImageIdsOf(caller) ==
    IF StaffOnly(caller) # 0 THEN {1} ELSE 1..next_image_id

TitlesOf(caller, title) ==
    IF StaffOnly(caller) # 0 THEN {<<>>} ELSE {<<>>, <<title>>}

\* ------------------------------------------------ posts/views.py TagViewSet
\* POST /tags: the viewset has no create action; permissions are checked
\* before the method is looked up
CreateTag(caller) ==
    /\ UNCHANGED <<vote_tables, comment_tables, store_vars, race_vars, user_tables>>
    /\ PostRequest
    /\ UNCHANGED <<posts, post_fields, updated, tags, post_tags, next_post_id, next_tag_id, images,
                   next_image_id>>
    /\ last_post' = PostLog("create_tag", caller, 0, FALSE, <<>>,
                            IF StaffOrReadOnly(caller, "POST") # 0
                            THEN StaffOrReadOnly(caller, "POST")
                            ELSE HTTP_405_METHOD_NOT_ALLOWED, <<>>)

\* PUT (partial = FALSE) or PATCH (partial = TRUE) /tags/{tag} {name};
\* name is <<>> when the body has no name
UpdateTag(caller, tag, partial, name) ==
    LET method == IF partial THEN "PATCH" ELSE "PUT"
        op == IF partial THEN "partial_update_tag" ELSE "update_tag"
        found == {t \in tags : t.id = tag}
        row == CHOOSE t \in found : TRUE
    IN
    /\ UNCHANGED <<vote_tables, comment_tables, store_vars, race_vars, user_tables>>
    /\ PostRequest
    /\ UNCHANGED <<posts, post_fields, updated, post_tags, next_post_id, next_tag_id, images,
                   next_image_id>>
    /\ IF StaffOrReadOnly(caller, method) # 0
       THEN /\ last_post' = PostLog(op, caller, 0, FALSE, <<>>,
                                    StaffOrReadOnly(caller, method), <<>>)
            /\ UNCHANGED tags
       ELSE IF found = {}
       THEN /\ last_post' = PostLog(op, caller, tag, FALSE, <<>>,
                                    HTTP_404_NOT_FOUND, <<>>)
            /\ UNCHANGED tags
       ELSE IF name = <<>> /\ ~partial
       THEN \* a full update requires the name
            /\ last_post' = PostLog(op, caller, tag, FALSE, name,
                                    HTTP_400_BAD_REQUEST, <<>>)
            /\ UNCHANGED tags
       ELSE /\ tags' = IF name = <<>> THEN tags
                       ELSE (tags \ {row}) \cup {[row EXCEPT !.name = name[1]]}
            /\ last_post' = PostLog(op, caller, tag, FALSE, name, HTTP_200_OK, <<>>)

\* DELETE /tags/{tag}
DestroyTag(caller, tag) ==
    /\ UNCHANGED <<vote_tables, comment_tables, store_vars, race_vars, user_tables>>
    /\ PostRequest
    /\ UNCHANGED <<posts, post_fields, updated, next_post_id, next_tag_id, images, next_image_id>>
    /\ IF StaffOrReadOnly(caller, "DELETE") # 0
       THEN /\ last_post' = PostLog("destroy_tag", caller, 0, FALSE, <<>>,
                                    StaffOrReadOnly(caller, "DELETE"), <<>>)
            /\ UNCHANGED <<tags, post_tags>>
       ELSE IF tag \notin TagIds(tags)
       THEN /\ last_post' = PostLog("destroy_tag", caller, tag, FALSE, <<>>,
                                    HTTP_404_NOT_FOUND, <<>>)
            /\ UNCHANGED <<tags, post_tags>>
       ELSE LET pdb == Tag_delete(CurrentPostDb, tag)
            IN /\ tags' = pdb.tags
               /\ post_tags' = pdb.post_tags
               /\ last_post' = PostLog("destroy_tag", caller, tag, FALSE, <<>>,
                                       HTTP_204_NO_CONTENT, pdb.trace)

\* GET /tags
ListTags(caller) ==
    /\ UNCHANGED <<vote_tables, comment_tables, store_vars, race_vars, user_tables>>
    /\ PostRequest
    /\ UNCHANGED <<posts, post_fields, updated, tags, post_tags, next_post_id, next_tag_id, images,
                   next_image_id>>
    /\ last_post' = PostLog("list_tags", caller, 0, FALSE, <<>>,
                            IF StaffOrReadOnly(caller, "GET") # 0
                            THEN StaffOrReadOnly(caller, "GET")
                            ELSE HTTP_200_OK, <<>>)

\* ---------------------------------------- posts/views.py PostsViewSet reads
\* The characters of the tags parameter: digits, the comma and a letter.
\* (int() also takes signs, spaces and underscores; the requests carry none.)
Digits == {"1", "2", "3"}
DigitValue == ("1" :> 1) @@ ("2" :> 2) @@ ("3" :> 3)

\* qs.split(',')
RECURSIVE Split(_)
Split(qs) ==
    IF \A i \in DOMAIN qs : qs[i] # "," THEN <<qs>>
    ELSE LET i == CHOOSE k \in DOMAIN qs :
                      /\ qs[k] = ","
                      /\ \A h \in 1..(k - 1) : qs[h] # ","
         IN <<SubSeq(qs, 1, i - 1)>> \o Split(SubSeq(qs, i + 1, Len(qs)))

\* int(str_id) raises ValueError for the empty string and for a string with
\* a character that is no digit
IsInt(str_id) ==
    /\ str_id # <<>>
    /\ \A i \in DOMAIN str_id : str_id[i] \in Digits

\* int(str_id) of a string of digits
RECURSIVE int(_)
int(str_id) ==
    IF str_id = <<>> THEN 0
    ELSE 10 * int(SubSeq(str_id, 1, Len(str_id) - 1))
         + DigitValue[str_id[Len(str_id)]]

\* PostsViewSet._params_to_ints
_params_to_ints(qs) ==
    LET pieces == Split(qs)
    IN IF \E i \in DOMAIN pieces : ~IsInt(pieces[i])
       THEN [raised |-> TRUE, ids |-> <<>>]
       ELSE [raised |-> FALSE, ids |-> [i \in DOMAIN pieces |-> int(pieces[i])]]

\* Post.created_at (auto_now_add): the ids are given in the order of creation
created_at(post) == post

\* Post.updated_at (auto_now): the place of the post in the order of the saves
updated_at(post) == CHOOSE i \in DOMAIN updated : updated[i] = post

\* Post.number_of_comments
number_of_comments(post) == Cardinality({c \in comments : c.post = post})

\* Meta.ordering = ['-created_at', '-updated_at'] of a set of posts
RECURSIVE Ordering(_)
Ordering(ps) ==
    IF ps = {} THEN <<>>
    ELSE LET latest == CHOOSE p \in ps :
                           \A q \in ps : created_at(q) <= created_at(p)
         IN <<latest>> \o Ordering(ps \ {latest})

Repeated(post, n) == [i \in 1..n |-> post]

\* queryset.filter(tags__id__in=tag_ids): the join of the posts with their
\* tags has a row for every attached tag that is listed
RECURSIVE filter_tags(_, _)
filter_tags(queryset, tag_ids) ==
    IF queryset = <<>> THEN <<>>
    ELSE Repeated(Head(queryset),
                  Cardinality({t \in TagsOfPost(post_tags, Head(queryset)) :
                                  \E i \in DOMAIN tag_ids : tag_ids[i] = t}))
         \o filter_tags(Tail(queryset), tag_ids)

\* Variant: the rows of the join as they are.
distinct_keeping_all(queryset) == queryset

\* queryset.distinct()
RECURSIVE distinct(_)
distinct(queryset) ==
    IF queryset = <<>> THEN <<>>
    ELSE <<Head(queryset)>>
         \o distinct(SelectSeq(Tail(queryset), LAMBDA q : q # Head(queryset)))

\* the keys of the eight sort values
SortKeys == {"title", "comments", "date", "update"}
SortValues == {k \o d : k \in SortKeys, d \in {"-asc", "-desc"}}
KeyOf(sort) == CHOOSE k \in SortKeys : sort \in {k \o "-asc", k \o "-desc"}
Reverse(sort) == sort = KeyOf(sort) \o "-desc"

\* Variant: the titles are compared as they are written.
KeyLess_case_sensitive(key, p, q) ==
    IF key = "title"
    THEN StrLess(post_fields[p].title, post_fields[q].title)
    ELSE IF key = "comments" THEN number_of_comments(p) < number_of_comments(q)
    ELSE IF key = "date" THEN created_at(p) < created_at(q)
    ELSE updated_at(p) < updated_at(q)

\* key(p) < key(q) for the key functions of get_queryset
KeyLess(key, p, q) ==
    IF key = "title"
    THEN StrLess(Lower(post_fields[p].title), Lower(post_fields[q].title))
    ELSE IF key = "comments" THEN number_of_comments(p) < number_of_comments(q)
    ELSE IF key = "date" THEN created_at(p) < created_at(q)
    ELSE updated_at(p) < updated_at(q)

\* One element put into a sorted list behind the elements it does not
\* precede: before the first one with a greater key (a smaller key, when
\* reversed).
RECURSIVE Inserted(_, _, _, _)
Inserted(sorted, p, key, reverse) ==
    IF sorted = <<>> THEN <<p>>
    ELSE IF (IF reverse THEN KeyLess(key, Head(sorted), p)
             ELSE KeyLess(key, p, Head(sorted)))
    THEN <<p>> \o sorted
    ELSE <<Head(sorted)>> \o Inserted(Tail(sorted), p, key, reverse)

\* list.sort(key=..., reverse=...): stable, also when reversed
RECURSIVE list_sort(_, _, _)
list_sort(queryset, key, reverse) ==
    IF queryset = <<>> THEN <<>>
    ELSE Inserted(list_sort(SubSeq(queryset, 1, Len(queryset) - 1), key, reverse),
                  queryset[Len(queryset)], key, reverse)

\* PostsViewSet.get_queryset; query is [tags, sort], each empty when the
\* request has no such parameter
get_queryset(query) ==
    LET parsed == IF query.tags # <<>> THEN _params_to_ints(query.tags)
                  ELSE [raised |-> FALSE, ids |-> <<>>]
        queryset == IF query.tags # <<>>
                    THEN distinct(filter_tags(Ordering(posts), parsed.ids))
                    ELSE Ordering(posts)
    IN IF parsed.raised THEN [raised |-> TRUE, posts |-> <<>>]
       ELSE IF query.sort \in SortValues
       THEN [raised |-> FALSE,
             posts |-> list_sort(queryset, KeyOf(query.sort), Reverse(query.sort))]
       ELSE [raised |-> FALSE, posts |-> queryset]

\* GET /posts?tags=..&sort=..; the listing is taken to fit on one page
ListPosts(caller, tags_param, sort) ==
    /\ UNCHANGED <<vote_tables, comment_tables, store_vars, race_vars, user_tables>>
    /\ PostRequest
    /\ UNCHANGED <<posts, post_fields, updated, tags, post_tags, next_post_id, next_tag_id, images,
                   next_image_id>>
    /\ LET query == [tags |-> tags_param, sort |-> sort]
           listing == get_queryset(query)
           status == IF StaffOrReadOnly(caller, "GET") # 0
                     THEN StaffOrReadOnly(caller, "GET")
                     ELSE IF listing.raised THEN HTTP_500_INTERNAL_SERVER_ERROR
                     ELSE HTTP_200_OK
       IN last_post' = [PostLog("list_posts", caller, 0, FALSE, <<>>, status, <<>>)
                           EXCEPT !.query = query,
                                  !.results = IF status = HTTP_200_OK
                                              THEN listing.posts ELSE <<>>]

\* GET /posts/{post}
RetrievePost(caller, post) ==
    /\ UNCHANGED <<vote_tables, comment_tables, store_vars, race_vars, user_tables>>
    /\ PostRequest
    /\ UNCHANGED <<posts, post_fields, updated, tags, post_tags, next_post_id, next_tag_id, images,
                   next_image_id>>
    /\ last_post' = PostLog("retrieve_post", caller, post, FALSE, <<>>,
                            IF StaffOrReadOnly(caller, "GET") # 0
                            THEN StaffOrReadOnly(caller, "GET")
                            ELSE IF post \notin posts THEN HTTP_404_NOT_FOUND
                            ELSE HTTP_200_OK, <<>>)

\* ------------------------------------------ posts/views.py PostImageViewSet
\* POST /postimages {title, post, image}; title is <<>> when the body has none
CreatePostImage(caller, post, title) ==
    /\ UNCHANGED <<vote_tables, comment_tables, store_vars, race_vars, user_tables>>
    /\ PostRequest
    /\ UNCHANGED <<posts, post_fields, updated, tags, post_tags, next_post_id, next_tag_id>>
    /\ IF StaffOnly(caller) # 0
       THEN /\ last_post' = PostLog("create_image", caller, 0, FALSE, <<>>,
                                    StaffOnly(caller), <<>>)
            /\ UNCHANGED <<images, next_image_id>>
       ELSE IF title = <<>> \/ post \notin posts
       THEN \* 'title': {'required': True}; 'post' must be the pk of a post
            /\ last_post' = PostLog("create_image", caller, post, FALSE, title,
                                    HTTP_400_BAD_REQUEST, <<>>)
            /\ UNCHANGED <<images, next_image_id>>
       ELSE /\ next_image_id <= MaxImageId
            /\ images' = images \cup
                   {[id |-> next_image_id, post |-> post, title |-> title[1]]}
            /\ next_image_id' = next_image_id + 1
            /\ last_post' = PostLog("create_image", caller, post, FALSE, title,
                                    HTTP_201_CREATED, <<>>)

\* PATCH /postimages/{image} {title}
UpdatePostImage(caller, image, title) ==
    LET found == {i \in images : i.id = image}
        row == CHOOSE i \in found : TRUE
    IN
    /\ UNCHANGED <<vote_tables, comment_tables, store_vars, race_vars, user_tables>>
    /\ PostRequest
    /\ UNCHANGED <<posts, post_fields, updated, tags, post_tags, next_post_id, next_tag_id,
                   next_image_id>>
    /\ IF StaffOnly(caller) # 0
       THEN /\ last_post' = PostLog("update_image", caller, 0, FALSE, <<>>,
                                    StaffOnly(caller), <<>>)
            /\ UNCHANGED images
       ELSE IF found = {}
       THEN /\ last_post' = PostLog("update_image", caller, image, FALSE, <<>>,
                                    HTTP_404_NOT_FOUND, <<>>)
            /\ UNCHANGED images
       ELSE /\ images' = IF title = <<>> THEN images
                         ELSE (images \ {row}) \cup {[row EXCEPT !.title = title[1]]}
            /\ last_post' = PostLog("update_image", caller, image, FALSE, title,
                                    HTTP_200_OK, <<>>)

\* DELETE /postimages/{image}
DestroyPostImage(caller, image) ==
    LET found == {i \in images : i.id = image}
    IN
    /\ UNCHANGED <<vote_tables, comment_tables, store_vars, race_vars, user_tables>>
    /\ PostRequest
    /\ UNCHANGED <<posts, post_fields, updated, tags, post_tags, next_post_id, next_tag_id,
                   next_image_id>>
    /\ IF StaffOnly(caller) # 0
       THEN /\ last_post' = PostLog("destroy_image", caller, 0, FALSE, <<>>,
                                    StaffOnly(caller), <<>>)
            /\ UNCHANGED images
       ELSE IF found = {}
       THEN /\ last_post' = PostLog("destroy_image", caller, image, FALSE, <<>>,
                                    HTTP_404_NOT_FOUND, <<>>)
            /\ UNCHANGED images
       ELSE /\ images' = images \ found
            /\ last_post' = PostLog("destroy_image", caller, image, FALSE, <<>>,
                                    HTTP_204_NO_CONTENT, <<>>)

\* ------------------------------------------- posts/views.py CommentViewSer
CommentLog(op, caller, comment, has_text, text, status) ==
    [op |-> op, caller |-> caller, comment |-> comment, has_text |-> has_text,
     text |-> text, status |-> status,
     before |-> [comments |-> comments, votes |-> votes, points |-> points]]

\* get_object(): the rows of queryset = Comment.objects.all() with this pk
CommentsWithId(comment) == {c \in comments : c.id = comment}

\* A request refused for want of authentication is refused whatever it
\* carries: one body and one id stand for all of them.
CommentBodiesOf(caller) ==
    IF caller = AnonymousUser THEN {<<FALSE, "none">>}
    ELSE {<<FALSE, "none">>} \cup {<<TRUE, t>> : t \in Texts}

CommentIdsOf(caller) ==
    IF caller = AnonymousUser THEN {1} ELSE 1..next_comment_id

\* POST /comments {text, post}
CreateComment(caller, has_text, text) ==
    /\ UNCHANGED <<vote_tables, post_tables, store_vars, race_vars, user_tables>>
    /\ CommentRequest
    /\ IF caller = AnonymousUser
       THEN \* permission_classes = [IsAuthenticated]
            /\ last_comment' = CommentLog("create", caller, 0, FALSE, "none",
                                          HTTP_401_UNAUTHORIZED)
            /\ UNCHANGED <<comments, next_comment_id>>
       ELSE IF ~has_text
       THEN \* 'text': {'required': True}
            /\ last_comment' = CommentLog("create", caller, 0, has_text, text,
                                          HTTP_400_BAD_REQUEST)
            /\ UNCHANGED <<comments, next_comment_id>>
       ELSE \* perform_create: serializer.save(author=self.request.user)
            /\ next_comment_id <= MaxCommentId
            /\ comments' = comments \cup
                   {[id |-> next_comment_id, author |-> caller, text |-> text,
                     post |-> OtherPost]}
            /\ next_comment_id' = next_comment_id + 1
            /\ last_comment' = CommentLog("create", caller, next_comment_id,
                                          has_text, text, HTTP_201_CREATED)

\* serializer.save() of an update: the validated fields are written
Comment_save(row, has_text, text) ==
    IF has_text THEN [row EXCEPT !.text = text] ELSE row

\* PUT /comments/{comment} {text, post}: UpdateModelMixin.update, which
\* CommentViewSer does not override
UpdateComment(caller, comment, has_text, text) ==
    LET found == CommentsWithId(comment)
        row == CHOOSE c \in found : TRUE
    IN
    /\ UNCHANGED <<vote_tables, post_tables, store_vars, race_vars, user_tables,
                   next_comment_id>>
    /\ CommentRequest
    /\ IF caller = AnonymousUser
       THEN /\ last_comment' = CommentLog("update", caller, 0, FALSE, "none",
                                          HTTP_401_UNAUTHORIZED)
            /\ UNCHANGED comments
       ELSE IF found = {}
       THEN /\ last_comment' = CommentLog("update", caller, comment, has_text,
                                          text, HTTP_404_NOT_FOUND)
            /\ UNCHANGED comments
       ELSE IF ~has_text
       THEN \* a full update requires every required field
            /\ last_comment' = CommentLog("update", caller, comment, has_text,
                                          text, HTTP_400_BAD_REQUEST)
            /\ UNCHANGED comments
       ELSE /\ comments' = (comments \ {row}) \cup {Comment_save(row, has_text, text)}
            /\ last_comment' = CommentLog("update", caller, comment, has_text,
                                          text, HTTP_200_OK)

\* comment.author != request.user is refused
IsCommentAuthor(row, caller) == row.author = caller

\* PATCH /comments/{comment} {text?}
PartialUpdateComment(caller, comment, has_text, text) ==
    LET found == CommentsWithId(comment)
        row == CHOOSE c \in found : TRUE
    IN
    /\ UNCHANGED <<vote_tables, post_tables, store_vars, race_vars, user_tables,
                   next_comment_id>>
    /\ CommentRequest
    /\ IF caller = AnonymousUser
       THEN /\ last_comment' = CommentLog("partial_update", caller, 0, FALSE,
                                          "none", HTTP_401_UNAUTHORIZED)
            /\ UNCHANGED comments
       ELSE IF found = {}
       THEN /\ last_comment' = CommentLog("partial_update", caller, comment,
                                          has_text, text, HTTP_404_NOT_FOUND)
            /\ UNCHANGED comments
       ELSE IF ~IsCommentAuthor(row, caller)
       THEN /\ last_comment' = CommentLog("partial_update", caller, comment,
                                          has_text, text, HTTP_403_FORBIDDEN)
            /\ UNCHANGED comments
       ELSE \* super().partial_update(): update(partial=True)
            /\ comments' = (comments \ {row}) \cup {Comment_save(row, has_text, text)}
            /\ last_comment' = CommentLog("partial_update", caller, comment,
                                          has_text, text, HTTP_200_OK)

\* DELETE /comments/{comment}
DestroyComment(caller, comment) ==
    LET found == CommentsWithId(comment)
        row == CHOOSE c \in found : TRUE
    IN
    /\ UNCHANGED <<comment_author, init_points, next_vote_id, post_tables,
                   store_vars, race_vars, user_tables, next_comment_id>>
    /\ CommentRequest
    /\ IF caller = AnonymousUser
       THEN /\ last_comment' = CommentLog("destroy", caller, 0, FALSE, "none",
                                          HTTP_401_UNAUTHORIZED)
            /\ UNCHANGED <<comments, votes, points>>
       ELSE IF found = {}
       THEN /\ last_comment' = CommentLog("destroy", caller, comment, FALSE,
                                          "none", HTTP_404_NOT_FOUND)
            /\ UNCHANGED <<comments, votes, points>>
       ELSE IF ~IsCommentAuthor(row, caller)
       THEN /\ last_comment' = CommentLog("destroy", caller, comment, FALSE,
                                          "none", HTTP_403_FORBIDDEN)
            /\ UNCHANGED <<comments, votes, points>>
       ELSE \* super().destroy(): instance.delete()
            LET db == Comment_delete(Db(votes, points, next_vote_id, <<>>),
                                     comment)
            IN IF Raised(db)
               THEN /\ last_comment' = CommentLog(
                                           "destroy", caller, comment, FALSE,
                                           "none", HTTP_500_INTERNAL_SERVER_ERROR)
                    /\ UNCHANGED <<comments, votes, points>>
               ELSE /\ votes' = db.votes
                    /\ points' = db.points
                    /\ comments' = comments \ {row}
                    /\ last_comment' = CommentLog(
                                           "destroy", caller, comment, FALSE,
                                           "none", HTTP_204_NO_CONTENT)

\* ------------------------------------------------------------ the user API
UserLog(op, caller, email, password, body, status) ==
    [op |-> op, caller |-> caller, email |-> email, password |-> password,
     body |-> body, status |-> status,
     before |-> [accounts |-> accounts, profiles |-> profiles,
                 user_fields |-> user_fields]]

\* the fields of a user nobody has registered
NoFields == [f \in AccountFields |-> "none"]

\* the fields after a user has been created with the email and the username
\* `name`: the password of the request, and the defaults of the profile
CreatedFields(name) ==
    [f \in AccountFields |-> IF f \in IdentityFields THEN name
                              ELSE IF f = "password" THEN "set" ELSE ""]

\* Variant: the manager accepts a password of 5 characters.
UserManager_create_user_from_five(email, password) ==
    IF email = "" THEN "ValueError"
    ELSE IF password < 5 THEN "ValueError"
    ELSE "saved"

\* UserManager.create_user; a password is modelled by its length.
UserManager_create_user(email, password) ==
    IF email = "" THEN "ValueError"
    ELSE IF password < 6 THEN "ValueError"
    ELSE "saved"

\* Variant: a password of the minimum length is refused too.
UserSerializer_is_valid_above_minimum(email, username, password) ==
    /\ email # ""
    /\ password > min_length
    /\ \A u \in accounts :
          user_fields[u]["email"] # email /\ user_fields[u]["username"] # username

\* UserSerializer validation of the nested `user` of POST /user/create: the
\* email and the password are not blank, the password has min_length
\* characters, and email and username are unique.
UserSerializer_is_valid(email, username, password) ==
    /\ email # ""
    /\ password >= min_length
    /\ \A u \in accounts :
          user_fields[u]["email"] # email /\ user_fields[u]["username"] # username

\* POST /user/create, open to everybody: UserProfileSerializer.create makes
\* the user and the profile, whose points take the default of the column.
CreateUser(email, username, password) ==
    /\ UNCHANGED <<votes, next_vote_id, comment_author, init_points,
                   post_tables, comment_tables, points_check, atomic_requests,
                   race_vars>>
    /\ UserRequest
    /\ IF ~UserSerializer_is_valid(email, username, password)
       THEN /\ last_user' = UserLog("create", username, email, password,
                                    {}, HTTP_400_BAD_REQUEST)
            /\ UNCHANGED <<accounts, profiles, points, user_fields>>
       ELSE IF UserManager_create_user(email, password) = "ValueError"
       THEN \* the exception leaves the view before anything is saved
            /\ last_user' = UserLog("create", username, email, password,
                                    {}, HTTP_500_INTERNAL_SERVER_ERROR)
            /\ UNCHANGED <<accounts, profiles, points, user_fields>>
       ELSE /\ accounts' = accounts \cup {username}
            /\ profiles' = profiles \cup {username}
            /\ points' = [u \in DOMAIN points \cup {username} |->
                             IF u = username THEN 0 ELSE points[u]]
            /\ user_fields' = [user_fields EXCEPT
                                   ![username] = CreatedFields(username)]
            /\ last_user' = UserLog("create", username, email, password,
                                    {}, HTTP_201_CREATED)

\* UserManager.create_superuser, as manage.py createsuperuser calls it: the
\* user is made by create_user, and no profile is made.  The answer is 0
\* for a user that was saved and 1 for an exception.
create_superuser(email, username, password) ==
    /\ UNCHANGED <<vote_tables, post_tables, comment_tables, store_vars,
                   race_vars>>
    /\ UserRequest
    /\ IF \/ UserManager_create_user(email, password) = "ValueError"
          \/ \E u \in accounts : \/ user_fields[u]["email"] = email
                                  \/ user_fields[u]["username"] = username
       THEN \* ValueError, or IntegrityError of the unique columns
            /\ last_user' = UserLog("create_superuser", username, email,
                                    password, {}, 1)
            /\ UNCHANGED <<accounts, user_fields>>
       ELSE /\ accounts' = accounts \cup {username}
            /\ user_fields' = [user_fields EXCEPT
                                   ![username] = CreatedFields(username)]
            /\ last_user' = UserLog("create_superuser", username, email,
                                    password, {}, 0)

\* the fields of the instance with those of the request set
WithFields(instance, body) ==
    [f \in AccountFields |-> IF f \in body THEN "new" ELSE instance.fields[f]]

\* Variant: the instance that is saved is a new UserProfile with the fields
\* of the request, its points at the default.
UserProfileSerializer_update_from_defaults(instance, body) ==
    IF body \cap IdentityFields # {}
    THEN [fields |-> instance.fields, points |-> instance.points,
          raised |-> TRUE]
    ELSE [fields |-> WithFields(instance, body), points |-> 0,
          raised |-> FALSE]

\* Variant: the password and the profile are saved before the email and
\* the username of the request are looked at.
UserProfileSerializer_update_checking_late(instance, body) ==
    [fields |-> WithFields(instance, body \ IdentityFields),
     points |-> instance.points,
     raised |-> body \cap IdentityFields # {}]

\* UserProfileSerializer.update: ValidationError for an email or a username
\* in the nested `user`, raised before anything is saved; then set_password
\* and user.save() for a password in the request, the profile fields of the
\* request on the instance, and instance.save(), which writes every column
\* of the profile with the value the instance holds.
UserProfileSerializer_update(instance, body) ==
    IF body \cap IdentityFields # {}
    THEN [fields |-> instance.fields, points |-> instance.points,
          raised |-> TRUE]
    ELSE [fields |-> WithFields(instance, body), points |-> instance.points,
          raised |-> FALSE]

\* PATCH /user/profile of the caller's own profile; `body` names the fields
\* the request carries, those of the nested `user` included.
UpdateProfile(caller, body) ==
    /\ UNCHANGED <<votes, next_vote_id, comment_author, init_points,
                   post_tables, comment_tables, store_vars, race_vars, accounts>>
    /\ UserRequest
    /\ IF caller \notin accounts
       THEN \* permission_classes = [IsAuthenticated]
            /\ last_user' = UserLog("update", caller, "", 0, body,
                                    HTTP_401_UNAUTHORIZED)
            /\ UNCHANGED <<points, user_fields>>
       ELSE IF caller \notin profiles
       THEN \* the user has no profile to manage
            /\ last_user' = UserLog("update", caller, "", 0, body,
                                    HTTP_500_INTERNAL_SERVER_ERROR)
            /\ UNCHANGED <<points, user_fields>>
       ELSE LET instance == [fields |-> user_fields[caller],
                             points |-> points[caller]]
                saved == UserProfileSerializer_update(instance, body)
            IN \* what the serializer saved stays, also when it raised
               /\ user_fields' = [user_fields EXCEPT ![caller] = saved.fields]
               /\ points' = [points EXCEPT ![caller] = saved.points]
               /\ last_user' = UserLog("update", caller, "", 0, body,
                                       IF saved.raised
                                       THEN HTTP_400_BAD_REQUEST
                                       ELSE HTTP_200_OK)

\* ------------------------------------- POST /votes, statement by statement
\* Two server workers handle one POST /votes each.  A step is one statement
\* sent to the database, which commits it on its own: the lookup of
\* VoteSerializer.create, the INSERT and the DELETE of a Vote row, and, in a
\* receiver, the SELECT that loads the author's profile and the UPDATE that
\* comment_author_profile.save() sends.
Workers == {1, 2}

NoProc ==
    [state |-> "idle", user |-> "none", comment |-> 0, vote_type |-> "none",
     todo |-> <<>>, vote |-> NoVote, instance |-> NoVote, loaded |-> 0,
     saved |-> <<>>]

\* The statements of vote.delete() and of Vote.objects.create(), in order.
DeleteSteps == <<"load_for_delete", "save_for_delete", "delete">>
CreateSteps == <<"insert", "load_for_add", "save_for_add">>

\* The worker after the statement at the head of its list; the response is
\* sent with the last one.
Stepped(p) ==
    IF Tail(p.todo) = <<>>
    THEN [p EXCEPT !.todo = <<>>, !.state = "done", !.vote = NoVote,
                   !.instance = NoVote, !.loaded = 0]
    ELSE [p EXCEPT !.todo = Tail(@)]

\* Is it the worker's turn to send the statement `step`?
AtStep(w, step) ==
    /\ proc[w].state = "running"
    /\ Head(proc[w].todo) = step

\* Variant: the store takes a request whatever the other worker is doing.
Admitted_always(w) == TRUE

\* Where requests are serialized, a request starts only when no other one
\* is in progress.
Admitted(w) ==
    serialized => \A o \in Workers \ {w} : proc[o].state # "running"

\* perform_create: the worker takes a valid request of an authenticated user.
ReceiveVote(w, caller, comment, vote_type) ==
    /\ proc[w].state = "idle"
    /\ Admitted(w)
    /\ proc' = [proc EXCEPT ![w] = [NoProc EXCEPT !.state = "running",
                                                  !.user = caller,
                                                  !.comment = comment,
                                                  !.vote_type = vote_type,
                                                  !.todo = <<"lookup">>]]
    /\ UNCHANGED <<vote_vars, post_vars, comment_vars, store_vars, user_vars,
                      serialized>>

\* vote = Vote.objects.filter(user=user, comment__id=comment_id).first(),
\* and the branch of the toggle that the answer selects.
LookupVote(w) ==
    LET p == proc[w]
        vote == First(VotesOf(votes, p.user, p.comment))
        todo == IF vote = NoVote THEN CreateSteps
                ELSE IF vote.vote_type = p.vote_type THEN DeleteSteps
                ELSE DeleteSteps \o CreateSteps
    IN /\ AtStep(w, "lookup")
       /\ proc' = [proc EXCEPT ![w] = [p EXCEPT !.vote = vote, !.todo = todo]]
       /\ UNCHANGED <<vote_vars, post_vars, comment_vars, store_vars, user_vars,
                      serialized>>

\* Vote.objects.create: the INSERT
InsertVote(w) ==
    LET p == proc[w]
        row == [id |-> next_vote_id, user |-> p.user, comment |-> p.comment,
                vote_type |-> p.vote_type]
    IN /\ AtStep(w, "insert")
       /\ next_vote_id <= MaxVoteId
       /\ votes' = votes \cup {row}
       /\ next_vote_id' = next_vote_id + 1
       /\ proc' = [proc EXCEPT ![w] = Stepped([p EXCEPT !.instance = row])]
       /\ UNCHANGED <<points, comment_author, init_points, last, run, post_vars,
                      comment_vars, store_vars, user_vars,
                      serialized>>

\* comment_author_profile = instance.comment.author.user_profile, in the
\* post_save receiver (instance is the new row) and in the pre_delete
\* receiver (instance is the vote that was looked up)
LoadProfile(w) ==
    LET p == proc[w]
        instance == IF Head(p.todo) = "load_for_add" THEN p.instance ELSE p.vote
        author == comment_author[instance.comment]
    IN /\ AtStep(w, "load_for_add") \/ AtStep(w, "load_for_delete")
       /\ proc' = [proc EXCEPT ![w] = Stepped([p EXCEPT !.loaded = points[author]])]
       /\ UNCHANGED <<vote_vars, post_vars, comment_vars, store_vars, user_vars,
                      serialized>>

\* The value that save() writes: the loaded one, adjusted in Python.
SavedPoints(current, loaded, delta) == loaded + delta

\* comment_author_profile.points += 1 or -= 1, and save()
SaveProfile(w) ==
    LET p == proc[w]
        adding == Head(p.todo) = "save_for_add"
        instance == IF adding THEN p.instance ELSE p.vote
        author == comment_author[instance.comment]
        delta == IF adding = (instance.vote_type = UPVOTE) THEN 1 ELSE -1
    IN /\ AtStep(w, "save_for_add") \/ AtStep(w, "save_for_delete")
       /\ points' = [points EXCEPT
                        ![author] = SavedPoints(points[author], p.loaded, delta)]
       /\ proc' = [proc EXCEPT ![w] =
                      Stepped([p EXCEPT !.saved = Append(@, <<author, delta>>)])]
       /\ UNCHANGED <<votes, next_vote_id, comment_author, init_points, last, run,
                      post_vars, comment_vars, store_vars, user_vars,
                      serialized>>

\* vote.delete(): the DELETE, of a row that may be gone already
DeleteVoteRow(w) ==
    LET p == proc[w]
    IN /\ AtStep(w, "delete")
       /\ votes' = votes \ {p.vote}
       /\ proc' = [proc EXCEPT ![w] = Stepped(p)]
       /\ UNCHANGED <<points, next_vote_id, comment_author, init_points, last,
                      run, post_vars, comment_vars, store_vars, user_vars,
                      serialized>>

\* ------------------------------------------------------------ specification
VoteInit ==
    /\ votes = {}
    /\ next_vote_id = 1
    /\ comment_author \in CommentAuthorings
    /\ \E p \in 0..MaxInitPoints : init_points = [u \in Users |-> p]
    /\ points = init_points
    /\ last = NoRequest
    /\ run = NoRun

PostInit ==
    /\ posts = {}
    /\ post_fields = <<>>
    /\ updated = <<>>
    /\ tags = {}
    /\ post_tags = {}
    /\ next_post_id = 1
    /\ next_tag_id = 1
    /\ last_post = NoPostRequest
    /\ images = {}
    /\ next_image_id = 1

\* The comments that are voted on, each with its author.
CommentInit ==
    /\ comments = {[id |-> c, author |-> comment_author[c], text |-> "first",
                     post |-> OtherPost] : c \in CommentIds}
    /\ next_comment_id = 3
    /\ last_comment = NoCommentRequest

\* Every user has a profile (POST /user/create makes one), the points are
\* stored as the receivers compute them, and no request fails half-way.
StoreInit ==
    /\ profiles = Users
    /\ points_check = FALSE
    /\ atomic_requests = FALSE
    /\ proc = [w \in Workers |-> NoProc]
    /\ serialized = TRUE
    /\ accounts = Users
    /\ user_fields = [u \in Users |-> CreatedFields(u)]
    /\ last_user = NoUserRequest

Init == VoteInit /\ PostInit /\ CommentInit /\ StoreInit

\* The vote tables play no part in the requests to /posts: one start for them.
PostOnlyInit ==
    /\ Init
    /\ comment_author = [c \in CommentIds |-> "alice"]
    /\ init_points = [u \in Users |-> 0]

\* The points play no part in the requests to /comments: one start for them.
CommentOnlyInit ==
    /\ Init
    /\ init_points = [u \in Users |-> 0]

\* A tag is in the table (the tests create it with Tag.objects.create);
\* the posts of this start carry no tags.
ContentInit ==
    /\ VoteInit
    /\ CommentInit
    /\ StoreInit
    /\ comment_author = [c \in CommentIds |-> "alice"]
    /\ init_points = [u \in Users |-> 0]
    /\ posts = {}
    /\ post_fields = <<>>
    /\ updated = <<>>
    /\ tags = {[id |-> 1, name |-> "python"]}
    /\ post_tags = {}
    /\ next_post_id = 1
    /\ next_tag_id = 2
    /\ last_post = NoPostRequest
    /\ images = {}
    /\ next_image_id = 1

\* The starts in which an adjustment of the points can fail.  The author of
\* comment 1 may be a user without a profile row: UserManager.create_user
\* and create_superuser save the user alone.  The `points` column may carry
\* the check of the PositiveIntegerField that core/models.py declares, and
\* the requests may or may not run in a transaction each (ATOMIC_REQUESTS,
\* False unless the settings say otherwise).
FaultInit ==
    /\ VoteInit
    /\ PostInit
    /\ CommentInit
    /\ comment_author = [c \in CommentIds |-> IF c = 1 THEN "alice" ELSE "bob"]
    /\ init_points = [u \in Users |-> 0]
    /\ profiles \in {Users, Users \ {"alice"}}
    /\ points_check \in BOOLEAN
    /\ atomic_requests \in BOOLEAN
    /\ proc = [w \in Workers |-> NoProc]
    /\ serialized = TRUE
    /\ accounts = Users
    /\ user_fields = [u \in Users |-> CreatedFields(u)]
    /\ last_user = NoUserRequest

\* The starts of two requests that run side by side: the ledger is empty or
\* holds bob's upvote on comment 1, with the point it gave to alice.
RaceInit ==
    /\ comment_author \in CommentAuthorings
    /\ PostInit
    /\ CommentInit
    /\ \E vs \in {{}, {[id |-> 1, user |-> "bob", comment |-> 1,
                         vote_type |-> UPVOTE]}} :
          /\ votes = vs
          /\ next_vote_id = Cardinality(vs) + 1
          /\ points = [u \in Users |->
                         IF u = "alice" THEN Cardinality(vs) ELSE 0]
    /\ init_points = points
    /\ last = NoRequest
    /\ run = NoRun
    /\ profiles = Users
    /\ points_check = FALSE
    /\ atomic_requests = FALSE
    /\ proc = [w \in Workers |-> NoProc]
    /\ serialized \in BOOLEAN
    /\ accounts = Users
    /\ user_fields = [u \in Users |-> CreatedFields(u)]
    /\ last_user = NoUserRequest

RaceNext ==
    \/ \E w \in Workers, caller \in Users, comment \in CommentIds,
          vote_type \in VOTE_CHOICES :
          ReceiveVote(w, caller, comment, vote_type)
    \/ \E w \in Workers : LookupVote(w)
    \/ \E w \in Workers : InsertVote(w)
    \/ \E w \in Workers : LoadProfile(w)
    \/ \E w \in Workers : SaveProfile(w)
    \/ \E w \in Workers : DeleteVoteRow(w)

\* The start for the requests of every kind side by side: alice, a staff
\* user, is registered and wrote both comments, the first of them on post 1,
\* which carries the tag python; bob has no account yet.
PointsInit ==
    /\ comment_author = [c \in CommentIds |-> "alice"]
    /\ votes = {}
    /\ next_vote_id = 1
    /\ points = [u \in {"alice"} |-> 0]
    /\ init_points = points
    /\ last = NoRequest
    /\ run = NoRun
    /\ posts = {1}
    /\ post_fields = [p \in {1} |-> Post_save(NewPost(SampleTitle(1)))]
    /\ updated = <<1>>
    /\ tags = {[id |-> 1, name |-> "python"]}
    /\ post_tags = {<<1, 1>>}
    /\ next_post_id = 2
    /\ next_tag_id = 2
    /\ last_post = NoPostRequest
    /\ images = {}
    /\ next_image_id = 1
    /\ comments = {[id |-> c, author |-> "alice", text |-> "first",
                     post |-> IF c = 1 THEN 1 ELSE OtherPost] : c \in CommentIds}
    /\ next_comment_id = 3
    /\ last_comment = NoCommentRequest
    /\ profiles = {"alice"}
    /\ points_check = FALSE
    /\ atomic_requests = FALSE
    /\ proc = [w \in Workers |-> NoProc]
    /\ serialized = TRUE
    /\ accounts = {"alice"}
    /\ user_fields = [u \in Users |-> IF u = "alice" THEN CreatedFields(u)
                                       ELSE NoFields]
    /\ last_user = NoUserRequest

\* The bodies of PATCH /user/profile: nothing, the password alone, the
\* profile fields alone, and all of them.
ProfileBodies ==
    {{}, {"password"}, ProfileFields \ {"password"}, ProfileFields}

\* a body with the email of the nested `user`, which is refused
RefusedBody == {"email"}

\* the requests to /user
UserNext ==
    \/ \E password \in {min_length - 1, min_length} :
          CreateUser("bob", "bob", password)
    \/ \E caller \in {Creator, AnonymousUser},
          body \in ProfileBodies \cup {RefusedBody} :
          /\ caller \notin accounts => body = {}
          /\ UpdateProfile(caller, body)

\* An empty database: nobody is registered, nothing is written.
AccountInit ==
    /\ comment_author = [c \in CommentIds |-> "alice"]
    /\ votes = {}
    /\ next_vote_id = 1
    /\ points = [u \in {} |-> 0]
    /\ init_points = points
    /\ last = NoRequest
    /\ run = NoRun
    /\ posts = {}
    /\ post_fields = <<>>
    /\ updated = <<>>
    /\ tags = {}
    /\ post_tags = {}
    /\ next_post_id = 1
    /\ next_tag_id = 1
    /\ last_post = NoPostRequest
    /\ images = {}
    /\ next_image_id = 1
    /\ comments = {}
    /\ next_comment_id = 1
    /\ last_comment = NoCommentRequest
    /\ profiles = {}
    /\ points_check = FALSE
    /\ atomic_requests = FALSE
    /\ proc = [w \in Workers |-> NoProc]
    /\ serialized = TRUE
    /\ accounts = {}
    /\ user_fields = [u \in Users |-> NoFields]
    /\ last_user = NoUserRequest

\* The bodies of PATCH /user/profile with and without an email or a
\* username in the nested `user`.
AccountBodies ==
    ProfileBodies \cup
    {{"email"}, {"username"}, {"email", "password"},
     {"username"} \cup (ProfileFields \ {"password"}), AccountFields}

\* The creation of users, by POST /user/create (bob) and by createsuperuser
\* (alice, the staff user), with passwords of every length and with and
\* without an email, and the updates of their profiles.
AccountNext ==
    \/ \E email \in {"", "bob"}, password \in 0..MaxPasswordLength :
          CreateUser(email, "bob", password)
    \/ \E email \in {"", "alice"}, password \in 0..MaxPasswordLength :
          create_superuser(email, "alice", password)
    \/ \E caller \in Callers, body \in AccountBodies :
          /\ (caller \notin accounts \/ caller \notin profiles) => body = {}
          /\ UpdateProfile(caller, body)

\* The requests of every kind that the staff user sends: her votes on
\* comment 1, and one request for each operation on comments, posts and
\* tags.
PointsNext ==
    \/ UserNext
    \/ \E vote_type \in VOTE_CHOICES : SubmitVote(Creator, 1, vote_type)
    \/ DeleteVote(Creator, 1)
    \/ CreateComment(Creator, TRUE, "first")
    \/ PartialUpdateComment(Creator, 2, TRUE, "edited")
    \/ DestroyComment(Creator, 1)
    \/ CreatePost(Creator, SampleTitle(next_post_id), <<>>)
    \/ UpdatePost(Creator, 1, FALSE, <<>>, FALSE, <<>>)
    \/ DeletePost(Creator, 1)
    \/ UpdateTag(Creator, 1, TRUE, <<NewTagName>>)
    \/ DestroyTag(Creator, 1)

VoteNext ==
    \/ \E caller \in Callers, comment \in CommentIds, vote_type \in VoteTypeInputs :
          /\ caller = AnonymousUser => comment = 1 /\ vote_type = UPVOTE
          /\ SubmitVote(caller, comment, vote_type)
    \/ \E caller \in Callers, vote_id \in 1..next_vote_id :
          /\ caller = AnonymousUser => vote_id = 1
          /\ DeleteVote(caller, vote_id)

PostNext ==
    \/ \E caller \in Callers : \E tag_names \in BodiesOf(caller, TagLists) :
          CreatePost(caller, SampleTitle(next_post_id), tag_names)
    \/ \E caller \in Callers : \E post \in PostIdsOf(caller), has_tags \in BOOLEAN,
                                   tag_names \in BodiesOf(caller, TagLists) :
          /\ ~has_tags => tag_names = <<>>
          /\ UpdatePost(caller, post, FALSE, <<>>, has_tags, tag_names)
    \/ \E caller \in Callers : \E post \in PostIdsOf(caller) :
          DeletePost(caller, post)

TagNext ==
    \/ \E caller \in Callers : CreateTag(caller)
    \/ \E caller \in Callers : \E tag \in TagIdsOf(caller), partial \in BOOLEAN,
                                   name \in NamesOf(caller) :
          UpdateTag(caller, tag, partial, name)
    \/ \E caller \in Callers : \E tag \in TagIdsOf(caller) :
          DestroyTag(caller, tag)
    \/ \E caller \in Callers : ListTags(caller)

ReadNext ==
    \/ \E caller \in Callers : ListPosts(caller, <<>>, "")
    \/ \E caller \in Callers, post \in 1..MaxPostId : RetrievePost(caller, post)

ImageNext ==
    \/ \E caller \in Callers : \E post \in PostIdsOf(caller),
                                   title \in TitlesOf(caller, Title) :
          CreatePostImage(caller, post, title)
    \/ \E caller \in Callers : \E image \in ImageIdsOf(caller),
                                   title \in TitlesOf(caller, NewTitle) :
          UpdatePostImage(caller, image, title)
    \/ \E caller \in Callers : \E image \in ImageIdsOf(caller) :
          DestroyPostImage(caller, image)

\* the requests to /posts, /tags and /postimages
\* The requests to /posts without tags: who may send them does not depend
\* on the body.
StaffPostNext ==
    \/ \E caller \in Callers :
          CreatePost(caller, SampleTitle(next_post_id), <<>>)
    \/ \E caller \in Callers : \E post \in PostIdsOf(caller) :
          UpdatePost(caller, post, FALSE, <<>>, FALSE, <<>>)
    \/ \E caller \in Callers : \E post \in PostIdsOf(caller) :
          DeletePost(caller, post)

\* the requests to /posts, /tags and /postimages
ContentNext == StaffPostNext \/ TagNext \/ ReadNext \/ ImageNext

\* The write requests to /votes, /comments, /posts and /tags that come without
\* credentials, among the creations of a user that fill the tables.
PublicNext ==
    \/ \E caller \in {Creator, AnonymousUser} : SubmitVote(caller, 1, UPVOTE)
    \/ DeleteVote(AnonymousUser, 1)
    \/ CreateComment(Creator, TRUE, "first")
    \/ CreateComment(AnonymousUser, FALSE, "none")
    \/ UpdateComment(AnonymousUser, 1, FALSE, "none")
    \/ PartialUpdateComment(AnonymousUser, 1, FALSE, "none")
    \/ DestroyComment(AnonymousUser, 1)
    \/ \E caller \in {Creator, AnonymousUser} :
          \E tag_names \in BodiesOf(caller, {<<"python">>}) :
              CreatePost(caller, SampleTitle(next_post_id), tag_names)
    \/ UpdatePost(AnonymousUser, 1, FALSE, <<>>, FALSE, <<>>)
    \/ DeletePost(AnonymousUser, 1)
    \/ CreateTag(AnonymousUser)
    \/ \E partial \in BOOLEAN : UpdateTag(AnonymousUser, 1, partial, <<>>)
    \/ DestroyTag(AnonymousUser, 1)

CommentNext ==
    \/ \E caller \in Callers : \E body \in CommentBodiesOf(caller) :
          CreateComment(caller, body[1], body[2])
    \/ \E caller \in Callers : \E comment \in CommentIdsOf(caller),
                                   body \in CommentBodiesOf(caller) :
          UpdateComment(caller, comment, body[1], body[2])
    \/ \E caller \in Callers : \E comment \in CommentIdsOf(caller),
                                   body \in CommentBodiesOf(caller) :
          PartialUpdateComment(caller, comment, body[1], body[2])
    \/ \E caller \in Callers : \E comment \in CommentIdsOf(caller) :
          DestroyComment(caller, comment)

\* The titles the requests to /posts carry: two that differ in case alone,
\* one with a space, one of punctuation alone and one of a letter outside
\* ASCII that has no decomposition (slugify leaves nothing of the last two).
\* None starts or ends with a space, which the serializer would trim.
PostTitles ==
    {<<"A", "b">>, <<"a", "b">>, <<"a", " ", "b">>, <<"?">>, <<"l_stroke">>}

\* The creations and title updates of posts by a staff user, from an empty
\* table; a blank title among them.
SlugNext ==
    \/ \E title \in PostTitles \cup {<<>>} : CreatePost(Creator, title, <<>>)
    \/ \E post \in 1..MaxPostId, title \in PostTitles \cup {<<>>} :
          UpdatePost(Creator, post, TRUE, title, FALSE, <<>>)
    \/ \E post \in 1..MaxPostId :
          UpdatePost(Creator, post, FALSE, <<>>, FALSE, <<>>)

\* The table that is listed: three posts, created in the order of their ids
\* with the titles SampleTitle and retitled since, so that two titles differ
\* in case alone; saved last in any order; the two tags attached to them in
\* several ways; the two comments on any of them.
ListedPosts == {1, 2, 3}
ListedTitles == {<<"A", "b">>, <<"a", "b">>, <<"B">>}
ListedTagSets == {{}, {1}, {1, 2}}

ListInit ==
    /\ VoteInit
    /\ StoreInit
    /\ comment_author = [c \in CommentIds |-> "alice"]
    /\ init_points = [u \in Users |-> 0]
    /\ posts = ListedPosts
    /\ \E titles \in [ListedPosts -> ListedTitles] :
          /\ \A p, q \in ListedPosts : p # q => titles[p] # titles[q]
          /\ post_fields = [p \in ListedPosts |->
                               [title |-> titles[p],
                                slug |-> slugify(SampleTitle(p))]]
    /\ updated \in {order \in [1..3 -> ListedPosts] :
                       \A p \in ListedPosts : \E i \in 1..3 : order[i] = p}
    /\ tags = {[id |-> 1, name |-> "python"], [id |-> 2, name |-> "django"]}
    /\ \E attached \in [{1, 2} -> ListedTagSets] :
          post_tags = {pt \in {1, 2} \X {1, 2} : pt[2] \in attached[pt[1]]}
                         \cup {<<3, 2>>}
    /\ next_post_id = 4
    /\ next_tag_id = 3
    /\ last_post = NoPostRequest
    /\ images = {}
    /\ next_image_id = 1
    /\ \E where \in [CommentIds -> ListedPosts] :
          comments = {[id |-> c, author |-> "alice", text |-> "first",
                       post |-> where[c]] : c \in CommentIds}
    /\ next_comment_id = 3
    /\ last_comment = NoCommentRequest

\* The tags parameters of the requests: none, one id, two ids, one id twice,
\* the id of no tag, and two that are no lists of integers.
TagsParams ==
    {<<>>, <<"1">>, <<"1", ",", "2">>, <<"1", ",", "1">>, <<"3">>,
     <<"x">>, <<"1", ",">>}

\* The sort parameters: none, the eight values, and one that is none of them.
SortParams == {""} \cup SortValues \cup {"title"}

\* GET /posts with parameters.  A tags parameter that is refused is refused
\* before the sort parameter is read: it comes without one.  A listing
\* changes no table, so one request on every table shows all of them.
ListNext ==
    \E tags_param \in TagsParams, sort \in SortParams :
        /\ last_post.op = "none"
        /\ get_queryset([tags |-> tags_param, sort |-> ""]).raised => sort = ""
        /\ ListPosts(AnonymousUser, tags_param, sort)

Next ==
    \/ VoteNext \/ PostNext \/ ContentNext \/ CommentNext \/ PublicNext
    \/ RaceNext \/ PointsNext \/ AccountNext \/ SlugNext
    \/ ListNext

\* the requests to /votes alone, to /posts alone, and all of them
VoteSpec == Init /\ [][VoteNext]_vars
PostSpec == PostOnlyInit /\ [][PostNext]_vars
\* the titles and slugs of the posts
SlugSpec == PostOnlyInit /\ [][SlugNext]_vars
\* the listing of the posts
ListSpec == ListInit /\ [][ListNext]_vars
ContentSpec == ContentInit /\ [][ContentNext]_vars
PublicSpec == PostOnlyInit /\ [][PublicNext]_vars
CommentSpec == CommentOnlyInit /\ [][CommentNext]_vars
\* the requests to /votes where an adjustment of the points can fail
FaultSpec == FaultInit /\ [][VoteNext]_vars
\* two requests to /votes, statement by statement
RaceSpec == RaceInit /\ [][RaceNext]_vars
\* the requests of every kind, for what they do to the points
PointsSpec == PointsInit /\ [][PointsNext]_vars
\* the creation of users and the updates of their profiles
AccountSpec == AccountInit /\ [][AccountNext]_vars
Spec == Init /\ [][Next]_vars

\* =================================================================== claims
\* the signed value of a vote type
SignedValue(vote_type) == IF vote_type = UPVOTE THEN 1 ELSE -1

\* the latest request was a POST /votes that reached VoteSerializer.create
Submitted == last.op = "submit_vote" /\ last.status = HTTP_201_CREATED

\* the vote the caller of the latest request had on its comment before it
VoteBefore == First(VotesOf(last.before.votes, last.caller, last.comment))

\* C1: after any sequence of POST /votes and DELETE /votes/{id} requests that
\* starts from an empty ledger, no (user, comment) pair has two Vote rows.
C1_OneVotePerPair ==
    \A u \in Users, c \in CommentIds : Cardinality(VotesOf(votes, u, c)) <= 1

\* C1 witness: a user who had a vote on a comment has submitted the other
\* type, and one row is there for the pair.
C1_Witness ==
    /\ Submitted
    /\ VoteBefore # NoVote
    /\ VoteBefore.vote_type # last.vote_type
    /\ Cardinality(VotesOf(votes, last.caller, last.comment)) = 1

C3_FirstVoteCreatesOneRow ==
    (Submitted /\ VoteBefore = NoVote) =>
        /\ Len(last.trace) = 2
        /\ last.trace[1].ev = "row_insert"
        /\ last.trace[2].ev = "points_save"
        /\ \E row \in votes :
              /\ row \notin last.before.votes
              /\ row.user = last.caller
              /\ row.comment = last.comment
              /\ row.vote_type = last.vote_type
              /\ votes = last.before.votes \cup {row}
        /\ Cardinality(votes) = Cardinality(last.before.votes) + 1

\* C3 witness: a first downvote was added to a ledger that held a row.
C3_Witness ==
    /\ Submitted
    /\ VoteBefore = NoVote
    /\ last.vote_type = DOWNVOTE
    /\ last.before.votes # {}
    /\ Cardinality(votes) = 2

\* the run ends with two requests of which the first met no vote
EndsWith(first, second) ==
    LET n == Len(run.steps)
    IN /\ n >= 2
       /\ run.steps[n - 1].voted = "none"
       /\ run.steps[n - 1].req = first
       /\ run.steps[n].req = second

\* the points table before the last but one request of the run
PointsBeforePair == run.steps[Len(run.steps) - 1].points

RunAuthor == comment_author[run.comment]

RunVotes == VotesOf(votes, run.user, run.comment)

Flipped ==
    /\ Submitted
    /\ VoteBefore # NoVote
    /\ VoteBefore.vote_type # last.vote_type

PointsAt(i) == IF i = 1 THEN last.before.points ELSE last.trace[i - 1].points

DeletedRow ==
    LET gone == last.before.votes \ votes
    IN IF gone = {} THEN NoVote ELSE CHOOSE v \in gone : TRUE

PostDeleted == last_post.op = "delete_post" /\ last_post.status = HTTP_204_NO_CONTENT

\* the tags of the deleted post that no other post referenced
OnlyOfDeleted ==
    {t \in TagsOfPost(last_post.before.post_tags, last_post.post) :
        PostSetOfTag(last_post.before.post_tags, t) = {last_post.post}}

\* C9: the deletion of a post deletes the tags attached to it that no other
\* post references, and no other tag; so a tag is there while a post that
\* exists references it, and is gone when the last post that referenced it
\* is deleted.
C9_PostDeletionCollectsTags ==
    /\ PostDeleted =>
          /\ tags = {t \in last_post.before.tags : t.id \notin OnlyOfDeleted}
          /\ posts = last_post.before.posts \ {last_post.post}
    /\ \A pt \in post_tags : pt[1] \in posts /\ pt[2] \in TagIds(tags)

\* C9 witness: a post with two tags has been deleted while another post
\* existed; the tag only it referenced is gone, the tag they shared is there.
C9_Witness ==
    /\ PostDeleted
    /\ posts # {}
    /\ \E t \in OnlyOfDeleted : t \notin TagIds(tags)
    /\ \E t \in TagsOfPost(last_post.before.post_tags, last_post.post) :
          t \in TagIds(tags) /\ PostSetOfTag(post_tags, t) # {}

\* the comment row the latest request to /comments/{id} addressed, as it was
\* before the request
CommentBefore == {c \in last_comment.before.comments : c.id = last_comment.comment}

\* C11: every full update, partial update or delete of a comment that an
\* authenticated user other than its author requests is answered with 403
\* and leaves the Comment table as it was.
C11_OnlyAuthorModifies ==
    (/\ last_comment.op \in {"update", "partial_update", "destroy"}
     /\ last_comment.caller \in Users
     /\ \E c \in CommentBefore : c.author # last_comment.caller)
    => /\ last_comment.status = HTTP_403_FORBIDDEN
       /\ comments = last_comment.before.comments

\* C11 witness: a user who is not the author has sent a full update of a
\* comment; it was answered with 200 and the comment's text is the one sent.
C11_Witness ==
    /\ last_comment.op = "update"
    /\ last_comment.status = HTTP_200_OK
    /\ \E c \in CommentBefore : /\ c.author # last_comment.caller
                                 /\ c.text # last_comment.text
    /\ \E c \in comments : /\ c.id = last_comment.comment
                            /\ c.text = last_comment.text

\* the requests that create, update or delete a post, a tag or a post image
ContentWrites ==
    {"create_post", "update_post", "delete_post", "create_tag", "update_tag",
     "partial_update_tag", "destroy_tag", "create_image", "update_image",
     "destroy_image"}

\* C12: a request that creates, updates or deletes a post, a tag or a post
\* image and comes from an authenticated caller who is not staff is answered
\* with 403 and changes no row of these tables; a listing of the posts or
\* of the tags, and the detail of a post that exists, are answered with 200
\* whoever asks, also without credentials.
C12_StaffOnlyWrites ==
    [][/\ (/\ last_post'.op \in ContentWrites
            /\ last_post'.caller \in Users \ StaffUsers)
           => /\ last_post'.status = HTTP_403_FORBIDDEN
              /\ UNCHANGED <<posts, post_fields, updated, tags, post_tags, images, next_post_id,
                             next_tag_id, next_image_id>>
       /\ last_post'.op \in {"list_posts", "list_tags"}
           => last_post'.status = HTTP_200_OK
       /\ (last_post'.op = "retrieve_post" /\ last_post'.post \in posts)
           => last_post'.status = HTTP_200_OK
      ]_vars

\* C12 witness: with a post and an image of it in the tables, a user who is
\* not staff asked for the deletion of an image and got 403.
C12_Witness ==
    /\ last_post.op = "destroy_image"
    /\ last_post.caller \in Users \ StaffUsers
    /\ last_post.status = HTTP_403_FORBIDDEN
    /\ posts # {}
    /\ images # {}

\* the tables that C13 names
PublicTables == <<votes, comments, posts, tags, post_tags, points>>

\* C13: a request that creates, updates or deletes a vote, a comment, a post
\* or a tag and carries no credentials is answered with 401 and leaves the
\* Vote, Comment, Post and Tag tables and the points of every user as they
\* were.
C13_AnonymousWritesRefused ==
    [][/\ (last' # last /\ last'.caller = AnonymousUser)
           => last'.status = HTTP_401_UNAUTHORIZED /\ UNCHANGED PublicTables
       /\ (last_comment' # last_comment /\ last_comment'.caller = AnonymousUser)
           => last_comment'.status = HTTP_401_UNAUTHORIZED /\ UNCHANGED PublicTables
       /\ (/\ last_post' # last_post
           /\ last_post'.caller = AnonymousUser
           /\ last_post'.op \in ContentWrites)
           => last_post'.status = HTTP_401_UNAUTHORIZED /\ UNCHANGED PublicTables
      ]_vars

\* C13 witness: with a vote in the ledger, points that it moved, a post and
\* its tag in the tables, a DELETE /votes/{id} without credentials got 401.
C13_Witness ==
    /\ last.op = "delete_vote"
    /\ last.caller = AnonymousUser
    /\ last.status = HTTP_401_UNAUTHORIZED
    /\ votes # {}
    /\ points # init_points
    /\ posts # {}
    /\ tags # {}
    /\ Cardinality(comments) > Cardinality(CommentIds)

\* the latest request was a POST /votes of a user with a valid vote_type
ReachedSerializer ==
    /\ last.op = "submit_vote"
    /\ last.caller \in Users
    /\ last.vote_type \in VOTE_CHOICES

\* the latest request removed the caller's vote: same type submitted again
Removal == VoteBefore # NoVote /\ VoteBefore.vote_type = last.vote_type

\* the fields that make up the data of a vote
VoteData(vote) ==
    [user |-> vote.user, comment |-> vote.comment, vote_type |-> vote.vote_type]

RowsOfType(vs, comment, vote_type) ==
    {v \in vs : v.comment = comment /\ v.vote_type = vote_type}

\* what the comment's serializer shows for a type
NumberOf(comment, vote_type) ==
    IF vote_type = UPVOTE THEN number_of_upvotes(comment)
    ELSE number_of_downvotes(comment)

\* by how much the latest request to /votes moved the number of votes of a
\* type on a comment: +1 for the type created, -1 for the type removed
CountChange(comment, vote_type) ==
    IF comment # last.comment THEN 0
    ELSE IF Submitted
    THEN (IF ~Removal /\ vote_type = last.vote_type THEN 1 ELSE 0)
         - (IF VoteBefore # NoVote /\ vote_type = VoteBefore.vote_type THEN 1 ELSE 0)
    ELSE IF last.op = "delete_vote" /\ last.status = HTTP_204_NO_CONTENT
    THEN (IF vote_type = DeletedRow.vote_type THEN -1 ELSE 0)
    ELSE 0

C16_AllOrNothing ==
    last.status = HTTP_500_INTERNAL_SERVER_ERROR =>
        /\ votes = last.before.votes
        /\ points = last.before.points

\* A flip whose creation half failed: the old vote was deleted and its
\* adjustment saved, the new row was inserted, the receiver raised, and all
\* of it is in the tables after the request.
C16_Witness ==
    /\ last.op = "submit_vote"
    /\ last.status = HTTP_500_INTERNAL_SERVER_ERROR
    /\ Len(last.trace) = 4
    /\ last.trace[2].ev = "row_delete"
    /\ last.trace[3].ev = "row_insert"
    /\ last.trace[4].ev = "raised"
    /\ votes = last.trace[4].votes
    /\ points = last.trace[4].points
    /\ points # last.before.points
    /\ \E v \in last.before.votes : v \notin votes
    /\ \E v \in votes : v \notin last.before.votes

\* C19: a POST /votes that inserts a downvote on a comment whose author has
\* a profile is answered 201, the row is in the table afterwards, and the
\* author's points are exactly 1 below what they were when the row was
\* inserted, at 0 points as anywhere else.
C19_DownvoteLowersByOne ==
    \A i \in 1..Len(last.trace) :
        ( /\ last.op = "submit_vote"
          /\ last.vote_type = DOWNVOTE
          /\ last.trace[i].ev = "row_insert"
          /\ comment_author[last.comment] \in profiles )
        => LET author == comment_author[last.comment]
           IN /\ last.status = HTTP_201_CREATED
              /\ points[author] = last.trace[i].points[author] - 1
              /\ \E v \in votes : /\ v.user = last.caller
                                  /\ v.comment = last.comment
                                  /\ v.vote_type = DOWNVOTE

\* The first downvote on a comment of an author with a fresh profile, where
\* the column carries its check: the request fails and the points stay 0.
C19_Witness ==
    /\ last.op = "submit_vote"
    /\ last.vote_type = DOWNVOTE
    /\ last.before.votes = {}
    /\ comment_author[last.comment] \in profiles
    /\ last.before.points[comment_author[last.comment]] = 0
    /\ last.status = HTTP_500_INTERNAL_SERVER_ERROR
    /\ points[comment_author[last.comment]] = 0

\* Have both workers answered their request?
AllDone == \A w \in Workers : proc[w].state = "done"

\* the sum of the adjustments in `saved` that went to the profile of `user`
RECURSIVE AdjustmentsFor(_, _)
AdjustmentsFor(saved, user) ==
    IF saved = <<>> THEN 0
    ELSE (IF Head(saved)[1] = user THEN Head(saved)[2] ELSE 0)
         + AdjustmentsFor(Tail(saved), user)

\* the initial points of `user` plus the adjustments of both requests
ExpectedPoints(user) ==
    init_points[user] + AdjustmentsFor(proc[1].saved, user)
                      + AdjustmentsFor(proc[2].saved, user)

\* C17: after two POST /votes requests, an author's points differ from the
\* initial points plus the sum of both adjustments only where the statements
\* of the two requests were free to interleave and both requests adjusted
\* that author's profile; where each request runs alone from start to end,
\* the points are always that sum.
C17_LostUpdateNeedsInterleaving ==
    \A u \in Users :
        (AllDone /\ points[u] # ExpectedPoints(u)) =>
            /\ ~serialized
            /\ \A w \in Workers :
                  \E i \in 1..Len(proc[w].saved) : proc[w].saved[i][1] = u

\* Two users upvoted two comments of alice at the same time, each request
\* saved its +1, and alice has one point more than before instead of two.
C17_Witness ==
    /\ AllDone
    /\ ~serialized
    /\ proc[1].user # proc[2].user
    /\ proc[1].comment # proc[2].comment
    /\ \A w \in Workers : proc[w].saved = <<<<"alice", 1>>>>
    /\ points["alice"] = init_points["alice"] + 1

\* C18: while and after the workers handle their POST /votes requests, the
\* pair (user, comment) of each request has at most one row in the Vote
\* table, also when both requests come from the same user for the same
\* comment.
C18_OneVotePerPairInRace ==
    \A w \in Workers :
        proc[w].state # "idle" =>
            Cardinality(VotesOf(votes, proc[w].user, proc[w].comment)) <= 1

\* Both requests of one user for one comment found no vote, both inserted
\* their row, and both have been answered: the pair has two rows.
C18_Witness ==
    /\ AllDone
    /\ proc[1].user = proc[2].user
    /\ proc[1].comment = proc[2].comment
    /\ \A w \in Workers : Len(proc[w].saved) = 1
    /\ Cardinality(VotesOf(votes, proc[1].user, proc[1].comment)) = 2

\* Was the step a request to /votes that created or deleted a vote?
VoteStep ==
    /\ last'.op \in {"submit_vote", "delete_vote"}
    /\ last'.status \in {HTTP_201_CREATED, HTTP_204_NO_CONTENT}

\* Was the step an account creation that gave the new profile 0 points and
\* left the points of the other profiles alone?
AccountStep ==
    /\ last_user'.op = "create"
    /\ last_user'.status = HTTP_201_CREATED
    /\ last_user'.caller \notin DOMAIN points
    /\ DOMAIN points' = DOMAIN points \cup {last_user'.caller}
    /\ points'[last_user'.caller] = 0
    /\ \A u \in DOMAIN points : points'[u] = points[u]

\* what the Vote rows `rows` have given to the author `user`
Given(rows, user) ==
    Cardinality({v \in rows : /\ comment_author[v.comment] = user
                               /\ v.vote_type = UPVOTE})
    - Cardinality({v \in rows : /\ comment_author[v.comment] = user
                                 /\ v.vote_type = DOWNVOTE})

\* Was the step the deletion of a comment, or of a post with its comments,
\* that removed their Vote rows and took back what the rows had given?
CascadeStep ==
    /\ \/ last_comment'.op = "destroy" /\ last_comment'.status = HTTP_204_NO_CONTENT
       \/ last_post'.op = "delete_post" /\ last_post'.status = HTTP_204_NO_CONTENT
    /\ comments' # comments
    /\ votes' = {v \in votes : \E c \in comments' : c.id = v.comment}
    /\ votes' # votes
    /\ DOMAIN points' = DOMAIN points
    /\ \A u \in DOMAIN points :
          points'[u] = points[u] - Given(votes \ votes', u)

RowsOfOthers(rows) ==
    {v \in rows : v.user # last.caller \/ v.comment # last.comment}

\* C21: a vote submission or vote deletion by a user on a comment creates,
\* changes and removes no Vote row of another user or for another comment:
\* the rows outside the pair are after the request what they were before.
C21_OnlyRowsOfThePair ==
    last.op \in {"submit_vote", "delete_vote"} =>
        RowsOfOthers(votes) = RowsOfOthers(last.before.votes)

\* a user removed their vote by sending it again while another user's vote
\* on the same comment was in the table: that vote is still there.
C21_Witness ==
    /\ Submitted
    /\ Cardinality(last.before.votes) = 2
    /\ \E v \in votes : v.user # last.caller /\ v.comment = last.comment
    /\ VotesOf(last.before.votes, last.caller, last.comment) # {}
    /\ VotesOf(votes, last.caller, last.comment) = {}

\* By how much are the points of `user` at event i of the last request ahead
\* of the Vote rows in the table at that event?  Both are counted from the
\* start of the request.
Ahead(i, user) ==
    (last.trace[i].points[user] - last.before.points[user])
    - (Given(last.trace[i].votes, user) - Given(last.before.votes, user))

SavesAt == {i \in DOMAIN last.trace : last.trace[i].ev = "points_save"}

\* C22 as claimed: an adjustment is applied only after the row operation it
\* belongs to, so whenever points are saved they are in step with the Vote
\* rows in the table: never ahead of a removal still to come, never ahead
\* of a creation still to come.
C22_AsClaimed ==
    \A i \in SavesAt :
        /\ i > 1
        /\ last.trace[i - 1].ev \in {"row_insert", "row_delete"}
        /\ \A u \in Users : Ahead(i, u) = 0

\* The adjustment at event i follows the insertion of its row.
AfterCreation(i) ==
    /\ i > 1
    /\ last.trace[i - 1].ev = "row_insert"
    /\ \A u \in Users : Ahead(i, u) = 0

\* The adjustment at event i precedes the removal of its row: the row is in
\* the table when the points are saved, and the points are ahead by what the
\* row had given until the next event removes it.
BeforeRemoval(i) ==
    /\ i < Len(last.trace)
    /\ last.trace[i + 1].ev = "row_delete"
    /\ \E row \in last.trace[i].votes :
          /\ last.trace[i + 1].votes = last.trace[i].votes \ {row}
          /\ \A u \in Users :
                /\ Ahead(i, u) = - Given({row}, u)
                /\ Ahead(i + 1, u) = 0

\* C22, amended: the adjustment of a creation is applied only after the Vote
\* row has been inserted, and the adjustment of a deletion is applied before
\* the row is removed (the receiver is a pre_delete receiver): while it is
\* applied the row is still in the table, and the removal follows.
C22_CreationAfterRemovalBefore ==
    \A i \in SavesAt : AfterCreation(i) \/ BeforeRemoval(i)

\* a flip: the points were first saved for the removal, with the old row in
\* the table, and last for the creation, with the new row in the table.
C22_Witness ==
    /\ Submitted
    /\ Len(last.trace) = 4
    /\ BeforeRemoval(1)
    /\ AfterCreation(4)
    /\ VoteBefore \in last.trace[1].votes

\* Is the run n submissions of the one vote_type t, and nothing else?
SameTypeRun(t) ==
    /\ run.steps # <<>>
    /\ \A i \in DOMAIN run.steps : run.steps[i].req = t

Odd(n) == n % 2 = 1

Creation == last_user.op \in {"create", "create_superuser"}

\* ... and a user was created
Accepted == last_user.status \in {HTTP_201_CREATED, 0}

\* the User and UserProfile tables are what they were before the request
UserTablesKept ==
    /\ accounts = last_user.before.accounts
    /\ profiles = last_user.before.profiles
    /\ user_fields = last_user.before.user_fields

C27_IdentityUpdateRejected ==
    (last_user.op = "update" /\ last_user.body \cap IdentityFields # {}) =>
        /\ last_user.status = HTTP_400_BAD_REQUEST
        /\ UserTablesKept

\* bob, who had set a first name before, sent every field at once, email
\* and username included: his password and his names are as before.
C27_Witness ==
    /\ last_user.op = "update"
    /\ last_user.caller = "bob"
    /\ last_user.body = AccountFields
    /\ last_user.status = HTTP_400_BAD_REQUEST
    /\ user_fields["bob"]["first_name"] = "new"
    /\ user_fields["bob"]["password"] = "set"
    /\ user_fields["bob"]["email"] = "bob"

\* the latest request created or updated a post
PostWritten ==
    /\ last_post.op \in {"create_post", "update_post"}
    /\ last_post.status \in {HTTP_200_OK, HTTP_201_CREATED}

\* the names the latest request listed
ListedNames == {last_post.tag_names[i] : i \in DOMAIN last_post.tag_names}

NamesIn(ts) == {t.name : t \in ts}

\* the Tag rows attached to a post in the many-to-many table pts
TagRowsOf(ts, pts, post) == {t \in ts : <<post, t.id>> \in pts}

PostUpdated == last_post.op = "update_post" /\ last_post.status = HTTP_200_OK

C23_SlugOfOriginalTitle ==
    [][\A p \in posts' :
          IF p \in posts
          THEN post_fields'[p].slug = post_fields[p].slug
          ELSE post_fields'[p].slug = slugify(post_fields'[p].title)]_vars

\* The part of C23 that the code keeps: a new row carries the slug of its
\* title, and a slug that is not empty is never changed.
C23_NonEmptySlugKept ==
    [][\A p \in posts' :
          IF p \in posts
          THEN post_fields[p].slug # <<>> =>
                  post_fields'[p].slug = post_fields[p].slug
          ELSE post_fields'[p].slug = slugify(post_fields'[p].title)]_vars

\* A title update has given a slug to a post that was created with a title
\* of which slugify leaves nothing: the slug is the one of the new title.
C23_Witness ==
    /\ last_post.op = "update_post"
    /\ last_post.status = HTTP_200_OK
    /\ last_post.post \in posts
    /\ last_post.before.post_fields[last_post.post].slug = <<>>
    /\ slugify(last_post.before.post_fields[last_post.post].title) = <<>>
    /\ post_fields[last_post.post].slug # <<>>
    /\ post_fields[last_post.post].slug =
          slugify(post_fields[last_post.post].title)

\* Two titles with one slug: the second creation is answered 500 and makes
\* no row, although the serializer has accepted the title.
C23_SlugCollision ==
    /\ last_post.op = "create_post"
    /\ last_post.status = HTTP_500_INTERNAL_SERVER_ERROR
    /\ posts = last_post.before.posts
    /\ posts # {}

\* ------------------------------------------------------------ C24, C25
\* The latest request was a listing that was answered.
Listed ==
    /\ last_post.op = "list_posts"
    /\ last_post.status = HTTP_200_OK

Elements(seq) == {seq[i] : i \in DOMAIN seq}

\* the posts with at least one attached tag whose id is in the tags parameter
PostsWithListedTag ==
    LET ids == Elements(_params_to_ints(last_post.query.tags).ids)
    IN {p \in posts : \E t \in ids : <<p, t>> \in post_tags}

\* C25: with a tags parameter listing tag ids, the listing contains exactly
\* the posts that have at least one attached tag whose id is in the list,
\* each of them once, also when several of its tags are listed.
C25_TagFilter ==
    (Listed /\ last_post.query.tags # <<>>) =>
        /\ Elements(last_post.results) = PostsWithListedTag
        /\ Len(last_post.results) = Cardinality(PostsWithListedTag)

\* Both tags were listed: a post that has both is in the listing, and a post
\* that has none is not.
C25_Witness ==
    /\ Listed
    /\ last_post.query.tags = <<"1", ",", "2">>
    /\ \E p \in Elements(last_post.results) :
          <<p, 1>> \in post_tags /\ <<p, 2>> \in post_tags
    /\ \E q \in posts : q \notin Elements(last_post.results)

\* key(p) <= key(q) for the key a sort value names
KeyNotAfter(key, p, q) ==
    IF key = "title"
    THEN ~StrLess(Lower(post_fields[q].title), Lower(post_fields[p].title))
    ELSE IF key = "comments"
    THEN Cardinality({c \in comments : c.post = p})
            <= Cardinality({c \in comments : c.post = q})
    ELSE IF key = "date" THEN p <= q
    ELSE \E i, j \in DOMAIN updated :
            updated[i] = p /\ updated[j] = q /\ i <= j

\* the posts a listing is made of: all of them, or those the tags parameter
\* selects
FilteredPosts ==
    IF last_post.query.tags = <<>> THEN posts ELSE PostsWithListedTag

\* C24: for each of the eight sort values {title,comments,date,update}-
\* {asc,desc} the listing is a permutation of the (tag-filtered) posts in the
\* order of the named key (the title compared without regard to case, the
\* number of comments, created_at, updated_at), non-decreasing for -asc and
\* non-increasing for -desc; with any other sort value the listing is the
\* one of the request without a sort parameter.
C24_SortedListing ==
    Listed =>
        LET results == last_post.results
            sort == last_post.query.sort
        IN IF \E key \in {"title", "comments", "date", "update"} :
                 sort \in {key \o "-asc", key \o "-desc"}
           THEN /\ Elements(results) = FilteredPosts
                /\ Len(results) = Cardinality(FilteredPosts)
                /\ \A key \in {"title", "comments", "date", "update"} :
                      \A i, j \in DOMAIN results :
                          i < j =>
                             /\ sort = key \o "-asc" =>
                                   KeyNotAfter(key, results[i], results[j])
                             /\ sort = key \o "-desc" =>
                                   KeyNotAfter(key, results[j], results[i])
           ELSE results =
                   get_queryset([tags |-> last_post.query.tags, sort |-> ""]).posts

\* Three posts were listed by title, in another order than without the sort
\* parameter.
C24_Witness ==
    /\ Listed
    /\ last_post.query.sort = "title-asc"
    /\ Len(last_post.results) = 3
    /\ last_post.results # Ordering(posts)

\* A sort value that is none of the eight came with a tags parameter, and
\* some posts were listed.
C24_OtherValue ==
    /\ Listed
    /\ last_post.query.sort = "title"
    /\ last_post.query.tags # <<>>
    /\ last_post.results # <<>>


============================================================================
